---------------------------- MODULE Spec2Model ----------------------------
(***************************************************************************)
(* A model of the wayoa compositor kernel: the surface store with its      *)
(* double-buffered commit, the xdg-shell objects, the shared-memory pools  *)
(* and buffers, and the serial counter.                                    *)
(*                                                                         *)
(* Rust's fixed-width integers are modelled exactly.  A u32/u64/usize that *)
(* takes part in arithmetic is a little-endian sequence of bytes (4 or 8   *)
(* of them), so that a wrapping operation is the truncation of the exact   *)
(* result and 2^32 needs no integer wider than the model checker's own.    *)
(***************************************************************************)
EXTENDS Integers, Sequences, FiniteSets, TLC

\* ------------------------------------------------------------------ bounds
\* calls of next_serial observed in one behaviour
MaxSerialCalls == 16
\* how far below the u32 wrap the observed counter may start
MaxBeforeWrap == 5
\* pools and buffers ever created by one behaviour of the shm handler
MaxPools == 1
MaxBuffers == 2
\* surfaces ever created by one behaviour
MaxSurfaces == 2
\* wl_buffer objects a client attaches
MaxWlBuffers == 2
\* damage rectangles a client adds between two commits
MaxDamage == 1
\* wl_callback objects ever created by frame requests
MaxCallbacks == 2
\* xdg_surface, xdg_toplevel and xdg_popup objects ever created, and windows
MaxXdgSurfaces == 1
MaxToplevels == 1
MaxPopups == 1
MaxWindows == 1
\* identities ever allocated, over all kinds
MaxIds == 3
\* windows ever created through the WindowManager alone
MaxManagedWindows == 2
\* the ids of the outputs given to an OutputManager
MaxOutputs == 4
\* the connections the server accepts
MaxClients == 4
\* the add and subtract requests of one region
MaxRects == 3

VARIABLES
    serial,           \* CompositorState.serial: AtomicU64, as 8 bytes
    issued,           \* history: the serials next_serial has returned, in order
    pools,            \* WlShmHandler.pools: ShmPoolId -> ShmPool
    buffers,          \* WlShmHandler.buffers: ShmBufferId -> ShmBuffer
    pool_counter,     \* ShmPoolId::new's static COUNTER
    buffer_counter,   \* ShmBufferId::new's static COUNTER
    overflow_checks,  \* the build: TRUE for debug (overflow panics), FALSE for release (wraps)
    surfaces,         \* SurfaceManager.surfaces: SurfaceId -> Surface
    surface_counter,  \* SurfaceId::new's static COUNTER
    attached,         \* history: per surface, the wl_buffer objects of its attach
                      \* requests: the one attached since the last commit (pending)
                      \* and the one the current BufferInfo was made for (current)
    wl_callbacks,     \* the number of wl_callback objects the client has created
    xdg_surfaces,     \* the xdg_surface objects, in creation order: XdgSurfaceData
                      \* (server) or XdgSurface (protocol::shell)
    acked,            \* history: per xdg_surface object of the server, the serials
                      \* of the ack_configure requests it has handled
    toplevels,        \* the xdg_toplevel objects, in creation order: ToplevelData
    popups,           \* the xdg_popup objects, in creation order: PopupData
    windows,          \* WindowManager.windows: WindowId -> Window
    surface_to_window, \* WindowManager.surface_to_window: SurfaceId -> WindowId
    focused_window,   \* WindowManager.focused_window: Option<WindowId>
    window_counter,   \* WindowId::new's static COUNTER
    native_windows,   \* ServerState.native_windows: WindowId -> WayoaWindow (macOS only)
    target_os,        \* the build: "macos" compiles the cfg(target_os = "macos") code
    mtm,              \* ServerState.mtm: Option<MainThreadMarker> (macOS only)
    positioner,       \* an XdgPositioner
    data_offer,       \* a DataOffer
    frame,            \* a ScreencopyFrame
    layer_surface,    \* a LayerSurface
    keyboard,         \* a Keyboard
    COUNTER,          \* the static COUNTER of each identity kind's new()
    id_issued,        \* history: per identity kind, the identities new() has returned
    id_live,          \* per identity kind, the identities whose entity is still held
    outputs,          \* OutputManager.outputs: the OutputIds of the outputs it holds
    primary,          \* OutputManager.primary: Option<OutputId>
    clients,          \* CompositorState.clients: the ClientIds it holds
    connections,      \* the clients connected to the display, each with the ClientId
                      \* that add_client returned when it was accepted
    region,           \* a Region: its RegionRects in request order
    panicked,         \* the process has panicked
    events,           \* the events the server has sent to its clients, in order
    last              \* the request handled last, its arguments and its result

serialVars == <<serial, issued>>
shmVars == <<pools, buffers, pool_counter, buffer_counter, overflow_checks>>
surfVars == <<surfaces, surface_counter, attached, wl_callbacks>>
xdgVars == <<xdg_surfaces, acked, toplevels, popups>>
winVars == <<windows, surface_to_window, focused_window, window_counter>>
hostVars == <<native_windows, target_os, mtm>>
idVars == <<COUNTER, id_issued, id_live>>
moreVars == <<outputs, primary, clients, connections, region>>
libVars == <<positioner, data_offer, frame, layer_surface, keyboard, idVars, moreVars>>

vars == <<serialVars, shmVars, surfVars, xdgVars, winVars, hostVars, libVars, panicked, events,
          last>>

\* what the handlers of one protocol leave alone
notSerial == <<shmVars, surfVars, xdgVars, winVars, hostVars, libVars>>
notShm == <<serialVars, surfVars, xdgVars, winVars, hostVars, libVars>>
notSurf == <<serialVars, shmVars, xdgVars, winVars, hostVars, libVars>>
\* the state of the server, which the calls on one library object leave alone
serverVars == <<serialVars, shmVars, surfVars, xdgVars, winVars, hostVars>>

\* -------------------------------------------------- fixed-width arithmetic
\* the i-th byte (1 = least significant) of a, zero beyond its length
Digit(a, i) == IF i <= Len(a) THEN a[i] ELSE 0

\* the natural number n (below 2^31) as len little-endian bytes
RECURSIVE NatToBytes(_, _)
NatToBytes(n, len) ==
    IF len = 0 THEN <<>> ELSE <<n % 256>> \o NatToBytes(n \div 256, len - 1)

\* a + b, exact when it fits in n bytes and truncated to n bytes (wrapped) otherwise
RECURSIVE AddFrom(_, _, _, _, _)
AddFrom(a, b, k, carry, n) ==
    IF k > n THEN <<>>
    ELSE LET t == Digit(a, k) + Digit(b, k) + carry
         IN  <<t % 256>> \o AddFrom(a, b, k + 1, t \div 256, n)

AddBytes(a, b, n) == AddFrom(a, b, 1, 0, n)

\* column k of the schoolbook product of a and b
RECURSIVE ColSum(_, _, _, _)
ColSum(a, b, k, i) ==
    IF i > k THEN 0 ELSE Digit(a, i) * Digit(b, k - i + 1) + ColSum(a, b, k, i + 1)

RECURSIVE MulFrom(_, _, _, _, _)
MulFrom(a, b, k, carry, n) ==
    IF k > n THEN <<>>
    ELSE LET t == ColSum(a, b, k, 1) + carry
         IN  <<t % 256>> \o MulFrom(a, b, k + 1, t \div 256, n)

\* a * b truncated to n bytes; exact for n >= Len(a) + Len(b)
MulBytes(a, b, n) == MulFrom(a, b, 1, 0, n)

\* a < b as natural numbers, compared from byte k downwards
RECURSIVE LessFrom(_, _, _)
LessFrom(a, b, k) ==
    IF k = 0 THEN FALSE
    ELSE IF Digit(a, k) # Digit(b, k) THEN Digit(a, k) < Digit(b, k)
    ELSE LessFrom(a, b, k - 1)

Max(x, y) == IF x >= y THEN x ELSE y
LessBytes(a, b) == LessFrom(a, b, Max(Len(a), Len(b)))
LeqBytes(a, b) == ~LessBytes(b, a)

\* the value does not fit in n bytes
Overflows(a, n) == \E i \in (n + 1)..Len(a) : a[i] # 0

\* Rust's `x as u32` of a wider unsigned integer, and `x as usize` of a u32
\* ---- i32: the value v of an expression and whether an overflow occurred (o)
I32Max == 2147483647
I32Min == -I32Max - 1

I32(v) == [v |-> v, o |-> FALSE]

AddOverflowsI32(a, b) == IF b >= 0 THEN a > I32Max - b ELSE a < I32Min - b
SubOverflowsI32(a, b) == IF b >= 0 THEN a < I32Min + b ELSE a > I32Max + b

\* a + b of two i32: the sum wrapped to 32 bits
AddI32(a, b) ==
    [v |-> IF ~AddOverflowsI32(a.v, b.v) THEN a.v + b.v
           ELSE IF b.v >= 0 THEN (a.v - I32Max - 1) + (b.v - I32Max - 1)
           ELSE (a.v + I32Max + 1) + (b.v + I32Max + 1),
     o |-> a.o \/ b.o \/ AddOverflowsI32(a.v, b.v)]

\* a - b of two i32: the difference wrapped to 32 bits
SubI32(a, b) ==
    [v |-> IF ~SubOverflowsI32(a.v, b.v) THEN a.v - b.v
           ELSE IF b.v >= 0 THEN (a.v + I32Max + 1) + ((I32Max - b.v) + 1)
           ELSE (a.v - I32Max - 1) + ((-(b.v + 1)) - I32Max),
     o |-> a.o \/ b.o \/ SubOverflowsI32(a.v, b.v)]

\* a / 2 of an i32: the quotient truncated towards zero
HalfI32(a) == [v |-> IF a.v >= 0 THEN a.v \div 2 ELSE (a.v + 1) \div 2, o |-> a.o]

\* `v as u32` of an i32 and `a as i32` of a u32: the same 32 bits
I32AsU32(v) ==
    IF v >= 0 THEN NatToBytes(v, 4)
    ELSE LET low == NatToBytes(v + I32Max + 1, 4)
         IN  <<low[1], low[2], low[3], low[4] + 128>>

U32AsI32(a) ==
    IF a[4] < 128 THEN a[1] + 256 * a[2] + 65536 * a[3] + 16777216 * a[4]
    ELSE (a[1] + 256 * a[2] + 65536 * a[3] + 16777216 * (a[4] - 128)) - I32Max - 1

\* a - b of two u32: the difference wrapped to 32 bits, and whether it underflows
SubU32(a, b) ==
    [v |-> AddBytes(a, AddBytes([i \in 1..4 |-> 255 - b[i]], NatToBytes(1, 4), 4), 4),
     o |-> LessBytes(a, b)]

AsU32(a) == SubSeq(a, 1, 4)
AsUsize(a) == a \o NatToBytes(0, 8 - Len(a))

\* ---------------------------------------------------------- serial counter
\* CompositorState::new: serial: AtomicU64::new(1)
SerialNew == NatToBytes(1, 8)

\* the counter after the 2^32 - j - 1 calls that bring it to 2^32 - j
SerialBelowWrap(j) == NatToBytes(256 - j, 1) \o <<255, 255, 255, 0, 0, 0, 0>>

\* self.serial.fetch_add(1, Ordering::Relaxed): the counter after the call ...
fetch_add_new_m(counter) == counter
fetch_add_new(counter) == AddBytes(counter, NatToBytes(1, 8), 8)

\* ... and next_serial's result, the value before the call `as u32`
next_serial_ret(counter) == AsU32(counter)

\* CompositorState::next_serial, called directly
NextSerial ==
    /\ Len(issued) < MaxSerialCalls
    /\ issued' = Append(issued, next_serial_ret(serial))
    /\ serial' = fetch_add_new(serial)
    /\ last' = [op |-> "next_serial"]
    /\ UNCHANGED <<notSerial, panicked, events>>

\* HashMap::remove
Without(f, k) == [x \in DOMAIN f \ {k} |-> f[x]]

\* HashMap::insert: a present key gets the new value
Insert(f, k, v) == (k :> v) @@ f

\* Option<T>: None, Some(x)
None == <<>>
Some(x) == <<x>>

\* SurfaceManager::new, and no request handled yet
SurfInitial ==
    /\ surfaces = <<>>
    /\ surface_counter = 1
    /\ attached = <<>>
    /\ wl_callbacks = 0

\* WindowManager::new, and no xdg_shell object created yet
ShellInitial ==
    /\ xdg_surfaces = <<>>
    /\ acked = <<>>
    /\ toplevels = <<>>
    /\ popups = <<>>
    /\ windows = <<>>
    /\ surface_to_window = <<>>
    /\ focused_window = None
    /\ window_counter = 1

\* the build targets: macOS, where the server runs with the main thread
\* marker that WayoaApp sets right after ServerState::new, and any other
TargetOs == {"macos", "other"}

\* ServerState::new (and set_main_thread_marker) in a build for the target
HostInitial(os) ==
    /\ native_windows = <<>>
    /\ target_os = os
    /\ mtm = IF os = "macos" THEN Some("mtm") ELSE None

\* XdgPositioner::new (Default)
XdgPositioner_new ==
    [size |-> <<0, 0>>, anchor_rect |-> <<0, 0, 0, 0>>, anchor |-> "None",
     gravity |-> "None", constraint_adjustment |-> 0, offset |-> <<0, 0>>]

\* DataOffer::new of a source with the DnD actions source_actions (a bit mask)
DataOffer_new(source_actions) ==
    [source_actions |-> source_actions, preferred_action |-> "None", action |-> "None"]

\* ScreencopyFrame::new
ScreencopyFrame_new ==
    [region |-> None, buffer_info |-> None, buffer |-> None, state |-> "Pending"]

\* LayerSurface::new: size (width, height), anchor mask, margin (top, right,
\* bottom, left)
LayerSurface_new ==
    [size |-> <<0, 0>>, anchor |-> 0, exclusive_zone |-> 0, margin |-> <<0, 0, 0, 0>>,
     configured |-> FALSE, configure_serial |-> 0]

\* ModifierState::default and Keyboard::new
ModifierState_default == [depressed |-> 0, latched |-> 0, locked |-> 0, group |-> 0]

Keyboard_new ==
    [focus |-> None, pressed_keys |-> <<>>, modifiers |-> ModifierState_default,
     repeat_rate |-> 25, repeat_delay |-> 600, keymap |-> None]

\* the identity kinds with a new() of their own static COUNTER
IdKinds == {"SurfaceId", "WindowId", "OutputId", "ClientId", "ShmPoolId", "ShmBufferId"}

\* static COUNTER: AtomicU64 = AtomicU64::new(1), and nothing issued yet
IdInitial ==
    /\ COUNTER = [k \in IdKinds |-> NatToBytes(1, 8)]
    /\ id_issued = [k \in IdKinds |-> <<>>]
    /\ id_live = [k \in IdKinds |-> {}]

\* OutputManager::new, CompositorState::new with no client connected, Region::new
MoreInitial ==
    /\ outputs = {}
    /\ primary = None
    /\ clients = {}
    /\ connections = {}
    /\ region = <<>>

\* the library objects as their constructors leave them
LibInitial ==
    /\ positioner = XdgPositioner_new
    /\ data_offer = DataOffer_new(0)
    /\ frame = ScreencopyFrame_new
    /\ layer_surface = LayerSurface_new
    /\ keyboard = Keyboard_new
    /\ IdInitial
    /\ MoreInitial

ShmInitial ==
    /\ pools = <<>>
    /\ buffers = <<>>
    /\ pool_counter = 1
    /\ buffer_counter = 1
    /\ panicked = FALSE
    /\ events = <<>>
    /\ last = [op |-> "new"]

\* ------------------------------------------------------------------ wl_shm
\* the sizes a client gives a pool, and the create_buffer requests it makes
PoolSizes == {4096, 40000}

BufferRequest(offset, width, height, stride, format) ==
    [offset |-> offset, width |-> width, height |-> height, stride |-> stride,
     format |-> format]

BufferRequests ==
    { BufferRequest(0, 100, 100, 400, 0),      \* fits a pool of 40000 bytes exactly
      BufferRequest(0, 100, 100, 300, 0),      \* stride below width * 4
      BufferRequest(0, 0, 0, 0, 1),            \* no pixels at all
      BufferRequest(0, 1, 65536, 65536, 0),    \* stride * height = 2^32
      BufferRequest(4096, 16, 16, 64, 2) }     \* starts at byte 4096

U32(n) == NatToBytes(n, 4)

\* `size as usize` of an i32: a negative size is sign-extended to 64 bits
I32AsUsize(n) ==
    IF n >= 0 THEN NatToBytes(n, 8)
    ELSE LET low == NatToBytes(n + 2147483647 + 1, 4)
         IN  <<low[1], low[2], low[3], low[4] + 128, 255, 255, 255, 255>>

\* the sizes of wl_shm_pool.resize requests: any i32
ResizeSizes == PoolSizes \cup {-1}

\* ShmFormat::from_wayland and ShmFormat::bytes_per_pixel
from_wayland(format) ==
    IF format = 0 THEN "Argb8888"
    ELSE IF format = 1 THEN "Xrgb8888"
    ELSE <<"Other", format>>

bytes_per_pixel(format) == 4

\* the exact product of two u32 (a u32 multiplication overflows when it needs
\* more than 4 bytes)
ExactMul(a, b) == MulBytes(a, b, 8)

\* create_buffer's two u32 products, `stride * height` and
\* `width * format.bytes_per_pixel()`, exact (8 bytes), tabulated per request
StrideByHeight ==
    [rq \in BufferRequests |-> ExactMul(U32(rq.stride), U32(rq.height))]
WidthByBpp ==
    [rq \in BufferRequests |->
        ExactMul(U32(rq.width), U32(bytes_per_pixel(from_wayland(rq.format))))]

\* WlShmHandler::create_buffer up to its result: Ok, an ShmError, or the panic of
\* an overflowing u32 multiplication in a build with overflow checks
create_buffer_ret(pool_id, rq) ==
    IF pool_id \notin DOMAIN pools THEN "InvalidPool"
    ELSE IF overflow_checks /\ Overflows(StrideByHeight[rq], 4) THEN "panic"
    ELSE LET buffer_end ==
                 AddBytes(AsUsize(U32(rq.offset)), AsUsize(AsU32(StrideByHeight[rq])), 8)
         IN  IF LessBytes(pools[pool_id].size, buffer_end)
             THEN "BufferTooLarge"
             ELSE IF overflow_checks /\ Overflows(WidthByBpp[rq], 4) THEN "panic"
             ELSE LET min_stride == AsU32(WidthByBpp[rq])
                  IN  IF LessBytes(U32(rq.stride), min_stride)
                      THEN "InvalidStride"
                      ELSE "Ok"

\* ShmBuffer::new
ShmBuffer(id, pool_id, rq) ==
    [id |-> id, pool_id |-> pool_id, offset |-> rq.offset, width |-> rq.width,
     height |-> rq.height, stride |-> rq.stride, format |-> from_wayland(rq.format)]

\* ShmPool::resize, sizes being usize
ShmPool_resize(pool, new_size) ==
    IF LessBytes(pool.size, new_size) THEN [pool EXCEPT !.size = new_size] ELSE pool

\* WlShmHandler::destroy_pool that also drops the buffers of the pool
destroy_pool_and_buffers(pool_id) ==
    [pools |-> Without(pools, pool_id),
     buffers |-> [b \in {x \in DOMAIN buffers : buffers[x].pool_id # pool_id} |-> buffers[b]]]

\* WlShmHandler::destroy_pool: the tables of the handler afterwards
destroy_pool(pool_id) == [pools |-> Without(pools, pool_id), buffers |-> buffers]

\* wl_shm.create_pool -> WlShmHandler::create_pool
WlShm_CreatePool(size) ==
    /\ ~panicked
    /\ pool_counter <= MaxPools
    /\ pools' = pools @@ (pool_counter :> [id |-> pool_counter, size |-> I32AsUsize(size)])
    /\ pool_counter' = pool_counter + 1
    /\ last' = [op |-> "create_pool", pool |-> pool_counter, ret |-> "Ok"]
    /\ UNCHANGED <<buffers, buffer_counter, overflow_checks, panicked, events, notShm>>

\* wl_shm_pool.create_buffer -> WlShmHandler::create_buffer, also called with
\* the id of a pool that was destroyed; an error is logged (warn!) and nothing
\* is sent to the client
WlShmPool_CreateBuffer(pool_id, rq) ==
    \E ret \in {create_buffer_ret(pool_id, rq)} :
        /\ ~panicked
        /\ pool_id \in 1..(pool_counter - 1)
        /\ ret = "Ok" => buffer_counter <= MaxBuffers
        /\ IF ret = "Ok"
           THEN /\ buffers' = buffers @@
                               (buffer_counter :> ShmBuffer(buffer_counter, pool_id, rq))
                /\ buffer_counter' = buffer_counter + 1
           ELSE UNCHANGED <<buffers, buffer_counter>>
        /\ panicked' = (ret = "panic")
        /\ last' = [op |-> "create_buffer", pool |-> pool_id, rq |-> rq, ret |-> ret,
                    buffer |-> IF ret = "Ok" THEN buffer_counter ELSE 0]
        /\ UNCHANGED <<pools, pool_counter, overflow_checks, events, notShm>>

\* WlShmHandler::resize_pool that makes a pool of the size when it has none
\* of the id
resize_pool_inserts(pool_id, new_size) ==
    IF pool_id \in DOMAIN pools
    THEN [pools |-> [pools EXCEPT ![pool_id] = ShmPool_resize(pools[pool_id], new_size)],
          ret |-> "Ok"]
    ELSE [pools |-> Insert(pools, pool_id, [id |-> pool_id, size |-> new_size]),
          ret |-> "InvalidPool"]

\* WlShmHandler::resize_pool: the pools afterwards and the result
resize_pool(pool_id, new_size) ==
    IF pool_id \in DOMAIN pools
    THEN [pools |-> [pools EXCEPT ![pool_id] = ShmPool_resize(pools[pool_id], new_size)],
          ret |-> "Ok"]
    ELSE [pools |-> pools, ret |-> "InvalidPool"]

\* wl_shm_pool.resize -> WlShmHandler::resize_pool, also called with the id
\* of a pool that was destroyed
WlShmPool_Resize(pool_id, size) ==
    /\ ~panicked
    /\ pool_id \in 1..(pool_counter - 1)
    /\ \E r \in {resize_pool(pool_id, I32AsUsize(size))} :
          /\ pools' = r.pools
          /\ last' = [op |-> "resize", pool |-> pool_id, size |-> size, ret |-> r.ret]
    /\ UNCHANGED <<buffers, pool_counter, buffer_counter, overflow_checks, panicked,
                   events, notShm>>

\* wl_shm_pool.destroy -> WlShmHandler::destroy_pool
WlShmPool_Destroy(pool_id) ==
    /\ ~panicked
    /\ pool_id \in DOMAIN pools
    /\ \E r \in {destroy_pool(pool_id)} :
          /\ pools' = r.pools
          /\ buffers' = r.buffers
    /\ last' = [op |-> "destroy_pool", pool |-> pool_id, ret |-> "Ok"]
    /\ UNCHANGED <<pool_counter, buffer_counter, overflow_checks, panicked, events, notShm>>

\* wl_buffer.destroy -> WlShmHandler::destroy_buffer
WlBuffer_Destroy(buffer_id) ==
    /\ ~panicked
    /\ buffer_id \in DOMAIN buffers
    /\ buffers' = Without(buffers, buffer_id)
    /\ last' = [op |-> "destroy_buffer", buffer |-> buffer_id, ret |-> "Ok"]
    /\ UNCHANGED <<pools, pool_counter, buffer_counter, overflow_checks, panicked,
                   events, notShm>>

\* ServerState::new, in a debug or a release build
InitShm ==
    /\ serial = SerialNew
    /\ issued = <<>>
    /\ overflow_checks \in BOOLEAN
    /\ ShmInitial
    /\ SurfInitial
    /\ ShellInitial
    /\ HostInitial("other")
    /\ LibInitial

NextShm ==
    \/ \E size \in PoolSizes : WlShm_CreatePool(size)
    \/ \E pool_id \in 1..(pool_counter - 1), rq \in BufferRequests :
           WlShmPool_CreateBuffer(pool_id, rq)
    \/ \E pool_id \in 1..(pool_counter - 1), size \in ResizeSizes :
           WlShmPool_Resize(pool_id, size)
    \/ \E pool_id \in DOMAIN pools : WlShmPool_Destroy(pool_id)
    \/ \E buffer_id \in DOMAIN buffers : WlBuffer_Destroy(buffer_id)

SpecShm == InitShm /\ [][NextShm]_vars

\* a compositor observed from its construction, or from a counter value that a
\* long-running compositor reaches shortly before the 32-bit wrap
InitSerial ==
    /\ serial \in {SerialNew} \cup {SerialBelowWrap(j) : j \in 1..MaxBeforeWrap}
    /\ issued = <<>>
    /\ overflow_checks = FALSE
    /\ ShmInitial
    /\ SurfInitial
    /\ ShellInitial
    /\ HostInitial("other")
    /\ LibInitial

NextSerialOnly == NextSerial

SpecSerial == InitSerial /\ [][NextSerialOnly]_vars
\* -------------------------------------------------------------- wl_surface
\* SurfacePendingState::default
SurfacePendingState ==
    [buffer |-> None, damage |-> <<>>, transform |-> 0, scale |-> 0,
     frame_callbacks |-> <<>>]

\* Surface::new
Surface_new(id) ==
    [id |-> id, buffer |-> None, damage |-> <<>>, transform |-> 0, scale |-> 1,
     pending |-> SurfacePendingState, role |-> "None", parent |-> None,
     children |-> <<>>]

DamageRect(x, y, width, height) == [x |-> x, y |-> y, width |-> width, height |-> height]

\* the BufferInfo the Attach handler makes for any non-null wl_buffer
BufferInfo == [width |-> 0, height |-> 0, stride |-> 0, format |-> 0, offset |-> 0]

\* Surface::attach, damage, frame, set_scale, set_transform
Surface_attach(surface, buffer) == [surface EXCEPT !.pending.buffer = buffer]

Surface_damage(surface, x, y, width, height) ==
    [surface EXCEPT !.pending.damage = Append(@, DamageRect(x, y, width, height))]

Surface_frame(surface, callback_id) ==
    [surface EXCEPT !.pending.frame_callbacks = Append(@, callback_id)]

\* Surface::set_scale writing the current scale instead of the pending one
Surface_set_scale_current(surface, scale) == [surface EXCEPT !.scale = scale]

Surface_set_scale(surface, scale) == [surface EXCEPT !.pending.scale = scale]

Surface_set_transform(surface, transform) ==
    [surface EXCEPT !.pending.transform = transform]

\* Surface::commit takes the pending buffer: `self.pending.buffer.is_some() ||
\* self.buffer.is_none()`
commit_takes_buffer(surface) == surface.pending.buffer # None \/ surface.buffer = None

\* Surface::commit
Surface_commit_keeps_scale(surface) ==
    LET s1 == IF commit_takes_buffer(surface)
              THEN [surface EXCEPT !.buffer = surface.pending.buffer,
                                   !.pending.buffer = None]
              ELSE surface
        s2 == IF s1.pending.damage # <<>>
              THEN [s1 EXCEPT !.damage = s1.pending.damage, !.pending.damage = <<>>]
              ELSE s1
        s3 == IF s2.pending.scale # 0 THEN [s2 EXCEPT !.scale = s2.pending.scale] ELSE s2
    IN  IF s3.pending.transform # 0
        THEN [s3 EXCEPT !.transform = s3.pending.transform, !.pending.transform = 0]
        ELSE s3

Surface_commit(surface) ==
    LET s1 == IF commit_takes_buffer(surface)
              THEN [surface EXCEPT !.buffer = surface.pending.buffer,
                                   !.pending.buffer = None]
              ELSE surface
        s2 == IF s1.pending.damage # <<>>
              THEN [s1 EXCEPT !.damage = s1.pending.damage, !.pending.damage = <<>>]
              ELSE s1
        s3 == IF s2.pending.scale # 0
              THEN [s2 EXCEPT !.scale = s2.pending.scale, !.pending.scale = 0]
              ELSE s2
    IN  IF s3.pending.transform # 0
        THEN [s3 EXCEPT !.transform = s3.pending.transform, !.pending.transform = 0]
        ELSE s3

\* the arguments of a client's requests: wl_buffer objects (0 is the null
\* buffer), damage rectangles, buffer scales and buffer transforms
WlBuffers == 1..MaxWlBuffers
DamageRects == {DamageRect(0, 0, 100, 100), DamageRect(50, 50, 100, 100)}
Scales == {0, 2}
Transforms == {0, 3}

\* wl_compositor.create_surface -> SurfaceManager::create_surface
WlCompositor_CreateSurface ==
    /\ surface_counter <= MaxSurfaces
    /\ surfaces' = surfaces @@ (surface_counter :> Surface_new(surface_counter))
    /\ surface_counter' = surface_counter + 1
    /\ attached' = attached @@ (surface_counter :> [pending |-> None, current |-> 0])
    /\ last' = [op |-> "create_surface", surface |-> surface_counter]
    /\ UNCHANGED <<wl_callbacks, panicked, events, notSurf>>

\* wl_surface.attach
WlSurface_Attach(surface_id, buffer) ==
    /\ surface_id \in DOMAIN surfaces
    /\ surfaces' = [surfaces EXCEPT ![surface_id] =
                       Surface_attach(@, IF buffer # 0 THEN Some(BufferInfo) ELSE None)]
    /\ attached' = [attached EXCEPT ![surface_id].pending = Some(buffer)]
    /\ last' = [op |-> "attach", surface |-> surface_id]
    /\ UNCHANGED <<surface_counter, wl_callbacks, panicked, events, notSurf>>

\* wl_surface.damage and wl_surface.damage_buffer
WlSurface_Damage(surface_id, rect) ==
    /\ surface_id \in DOMAIN surfaces
    /\ Len(surfaces[surface_id].pending.damage) < MaxDamage
    /\ surfaces' = [surfaces EXCEPT ![surface_id] =
                       Surface_damage(@, rect.x, rect.y, rect.width, rect.height)]
    /\ last' = [op |-> "damage", surface |-> surface_id]
    /\ UNCHANGED <<surface_counter, attached, wl_callbacks, panicked, events, notSurf>>

WlSurface_DamageBuffer(surface_id, rect) ==
    /\ surface_id \in DOMAIN surfaces
    /\ Len(surfaces[surface_id].pending.damage) < MaxDamage
    /\ surfaces' = [surfaces EXCEPT ![surface_id] =
                       Surface_damage(@, rect.x, rect.y, rect.width, rect.height)]
    /\ last' = [op |-> "damage_buffer", surface |-> surface_id]
    /\ UNCHANGED <<surface_counter, attached, wl_callbacks, panicked, events, notSurf>>

\* wl_surface.frame: a new wl_callback object, its protocol id queued
WlSurface_Frame(surface_id) ==
    /\ surface_id \in DOMAIN surfaces
    /\ wl_callbacks < MaxCallbacks
    /\ wl_callbacks' = wl_callbacks + 1
    /\ surfaces' = [surfaces EXCEPT ![surface_id] = Surface_frame(@, wl_callbacks + 1)]
    /\ last' = [op |-> "frame", surface |-> surface_id]
    /\ UNCHANGED <<surface_counter, attached, panicked, events, notSurf>>

\* WayoaWindow::new, then WayoaWindow::show
WayoaWindow(window_id, width, height, title) ==
    [window_id |-> window_id, width |-> width, height |-> height, title |-> title,
     visible |-> TRUE, zoomed |-> FALSE, fullscreen |-> FALSE]

\* ServerState.native_windows after the commit of the surface: in a macOS
\* build a toplevel surface with a window and no native window gets one, of
\* the buffer's size and at least 640x480
commit_native_windows(surface_id, surface) ==
    IF /\ target_os = "macos"
       /\ surface.role = "XdgToplevel"
       /\ surface_id \in DOMAIN surface_to_window
       /\ surface_to_window[surface_id] \notin DOMAIN native_windows
       /\ mtm # None
    THEN LET window_id == surface_to_window[surface_id]
             width == IF surface.buffer = None THEN 640
                      ELSE Max(surface.buffer[1].width, 640)
             height == IF surface.buffer = None THEN 480
                       ELSE Max(surface.buffer[1].height, 480)
         IN  Insert(native_windows, window_id,
                    WayoaWindow(window_id, width, height, "Wayland Window"))
    ELSE native_windows

\* wl_surface.commit: the frame callbacks are drained (and dropped), then
\* Surface::commit, then the native window of a toplevel; no event is sent
WlSurface_Commit(surface_id) ==
    /\ surface_id \in DOMAIN surfaces
    /\ surfaces' = [surfaces EXCEPT ![surface_id] =
                       Surface_commit([@ EXCEPT !.pending.frame_callbacks = <<>>])]
    /\ attached' = [attached EXCEPT ![surface_id] =
                       IF commit_takes_buffer(surfaces[surface_id])
                       THEN [pending |-> None,
                             current |-> IF @.pending = None THEN 0 ELSE @.pending[1]]
                       ELSE [@ EXCEPT !.pending = None]]
    /\ last' = [op |-> "commit", surface |-> surface_id,
                attach |-> attached[surface_id].pending,
                current |-> attached[surface_id].current,
                pending |-> surfaces[surface_id].pending]
    /\ native_windows' = commit_native_windows(surface_id, surfaces'[surface_id])
    /\ UNCHANGED <<surface_counter, wl_callbacks, panicked, events, serialVars, shmVars, libVars,
                   xdgVars, winVars, target_os, mtm>>

\* wl_surface.set_buffer_transform and wl_surface.set_buffer_scale
WlSurface_SetBufferTransform(surface_id, transform) ==
    /\ surface_id \in DOMAIN surfaces
    /\ surfaces' = [surfaces EXCEPT ![surface_id] = Surface_set_transform(@, transform)]
    /\ last' = [op |-> "set_buffer_transform", surface |-> surface_id,
                transform |-> transform]
    /\ UNCHANGED <<surface_counter, attached, wl_callbacks, panicked, events, notSurf>>

WlSurface_SetBufferScale(surface_id, scale) ==
    /\ surface_id \in DOMAIN surfaces
    /\ surfaces' = [surfaces EXCEPT ![surface_id] = Surface_set_scale(@, scale)]
    /\ last' = [op |-> "set_buffer_scale", surface |-> surface_id, scale |-> scale]
    /\ UNCHANGED <<surface_counter, attached, wl_callbacks, panicked, events, notSurf>>

\* wl_surface.destroy, and the resource's destruction -> SurfaceManager::remove
WlSurface_Destroy(surface_id) ==
    /\ surface_id \in DOMAIN surfaces
    /\ surfaces' = Without(surfaces, surface_id)
    /\ attached' = Without(attached, surface_id)
    /\ last' = [op |-> "destroy_surface", surface |-> surface_id]
    /\ UNCHANGED <<surface_counter, wl_callbacks, panicked, events, notSurf>>

\* ServerState::new
InitServer ==
    /\ serial = SerialNew
    /\ issued = <<>>
    /\ overflow_checks = FALSE
    /\ ShmInitial
    /\ SurfInitial
    /\ ShellInitial
    /\ HostInitial("other")
    /\ LibInitial

\* a server, built for the target, on which a client has created one wl_surface
OneSurface(os) ==
    /\ serial = SerialNew
    /\ issued = <<>>
    /\ overflow_checks = FALSE
    /\ ShmInitial
    /\ surfaces = (1 :> Surface_new(1))
    /\ surface_counter = 2
    /\ attached = (1 :> [pending |-> None, current |-> 0])
    /\ wl_callbacks = 0
    /\ ShellInitial
    /\ HostInitial(os)
    /\ LibInitial

\* no surface of these behaviours gets the toplevel role, so the target
\* makes no difference to them
Init == OneSurface("other")

InitXdg == \E os \in TargetOs : OneSurface(os)

\* the requests of one wl_surface
Next ==
    \/ \E s \in DOMAIN surfaces, b \in WlBuffers \cup {0} : WlSurface_Attach(s, b)
    \/ \E s \in DOMAIN surfaces, r \in DamageRects : WlSurface_Damage(s, r)
    \/ \E s \in DOMAIN surfaces, r \in DamageRects : WlSurface_DamageBuffer(s, r)
    \/ \E s \in DOMAIN surfaces : WlSurface_Frame(s)
    \/ \E s \in DOMAIN surfaces : WlSurface_Commit(s)
    \/ \E s \in DOMAIN surfaces, x \in Transforms : WlSurface_SetBufferTransform(s, x)
    \/ \E s \in DOMAIN surfaces, x \in Scales : WlSurface_SetBufferScale(s, x)

Spec == Init /\ [][Next]_vars

\* the scales and transforms of set_buffer_scale and set_buffer_transform:
\* any i32; a transform is the raw value of a WEnum, 0..7 or unknown
ScaleArgs == {-1, 0, 1, 2, 3}
TransformArgs == 0..8

\* the scale and transform requests of one wl_surface, and its commit
NextScale ==
    \/ \E s \in DOMAIN surfaces, x \in ScaleArgs : WlSurface_SetBufferScale(s, x)
    \/ \E s \in DOMAIN surfaces, x \in TransformArgs : WlSurface_SetBufferTransform(s, x)
    \/ \E s \in DOMAIN surfaces : WlSurface_Commit(s)

SpecScale == Init /\ [][NextScale]_vars

\* surfaces, the buffers attached to them, and their destruction
NextBuffers ==
    \/ WlCompositor_CreateSurface
    \/ \E s \in DOMAIN surfaces, b \in WlBuffers \cup {0} : WlSurface_Attach(s, b)
    \/ \E s \in DOMAIN surfaces : WlSurface_Commit(s)
    \/ \E s \in DOMAIN surfaces : WlSurface_Destroy(s)

SpecBuffers == InitServer /\ [][NextBuffers]_vars

\* --------------------------------------------------------------- xdg_shell
\* SurfaceRole
SurfaceRoles == {"None", "XdgToplevel", "XdgPopup", "Subsurface", "Cursor", "LayerSurface"}

\* Surface::set_role without its check: the role is always assigned
Surface_set_role_unchecked(surface, role) ==
    [surface |-> [surface EXCEPT !.role = role], ret |-> "Ok"]

\* Surface::set_role: the surface afterwards and the Result
Surface_set_role(surface, role) ==
    IF surface.role # "None" /\ surface.role # role
    THEN [surface |-> surface, ret |-> "Err"]
    ELSE [surface |-> [surface EXCEPT !.role = role], ret |-> "Ok"]

\* WindowState::default, WindowGeometry::default and Window::new
WindowState ==
    [maximized |-> FALSE, fullscreen |-> FALSE, minimized |-> FALSE, focused |-> FALSE,
     activated |-> FALSE, resizing |-> FALSE, moving |-> FALSE]

WindowGeometry == [x |-> 0, y |-> 0, width |-> 0, height |-> 0]

Window_new(id, surface_id) ==
    [id |-> id, surface_id |-> surface_id, title |-> None, app_id |-> None,
     maximized |-> FALSE, fullscreen |-> FALSE, geometry |-> WindowGeometry,
     min_size |-> <<0, 0>>, max_size |-> <<0, 0>>, state |-> WindowState,
     parent |-> None, native_handle |-> None]

\* the data of the server's xdg_surface, xdg_toplevel and xdg_popup resources
XdgSurfaceData(surface_id) == [surface_id |-> surface_id, configured |-> FALSE]
ToplevelData(surface_id, window_id) == [surface_id |-> surface_id, window_id |-> window_id]
PopupData(surface_id) == [surface_id |-> surface_id]

\* the serials a client puts into ack_configure: the first the server issues,
\* and one it has not issued
AckSerials == {U32(1), U32(7)}

\* xdg_wm_base.get_xdg_surface
XdgWmBase_GetXdgSurface(surface_id) ==
    /\ Len(xdg_surfaces) < MaxXdgSurfaces
    /\ xdg_surfaces' = Append(xdg_surfaces, XdgSurfaceData(surface_id))
    /\ acked' = Append(acked, {})
    /\ last' = [op |-> "get_xdg_surface", surface |-> surface_id]
    /\ UNCHANGED <<toplevels, popups, winVars, hostVars, serialVars, shmVars, libVars, surfVars,
                   panicked, events>>

\* xdg_surface.get_toplevel: the role is set (a failure is ignored), a window
\* is created, xdg_toplevel.configure and xdg_surface.configure are sent
XdgSurface_GetToplevel(x) ==
    /\ x \in DOMAIN xdg_surfaces
    /\ Len(toplevels) < MaxToplevels
    /\ LET surface_id == xdg_surfaces[x].surface_id
       IN  /\ surfaces' = IF surface_id \in DOMAIN surfaces
                          THEN [surfaces EXCEPT ![surface_id] =
                                   Surface_set_role(@, "XdgToplevel").surface]
                          ELSE surfaces
           /\ windows' = Insert(windows, window_counter, Window_new(window_counter, surface_id))
           /\ surface_to_window' = Insert(surface_to_window, surface_id, window_counter)
           /\ window_counter' = window_counter + 1
           /\ toplevels' = Append(toplevels, ToplevelData(surface_id, window_counter))
           /\ serial' = fetch_add_new(serial)
           /\ issued' = Append(issued, next_serial_ret(serial))
           /\ events' = events \o
                  <<[event |-> "xdg_toplevel.configure", toplevel |-> Len(toplevels) + 1,
                     width |-> 640, height |-> 480, states |-> <<>>],
                    [event |-> "xdg_surface.configure", xdg_surface |-> x,
                     serial |-> next_serial_ret(serial)]>>
           /\ last' = [op |-> "get_toplevel", xdg_surface |-> x, surface |-> surface_id,
                       role |-> IF surface_id \in DOMAIN surfaces
                                THEN surfaces[surface_id].role ELSE "destroyed",
                       window |-> window_counter]
    /\ UNCHANGED <<xdg_surfaces, acked, popups, focused_window, hostVars, shmVars, libVars,
                   surface_counter, attached, wl_callbacks, panicked>>

\* xdg_surface.get_popup: the role is set (a failure is ignored),
\* xdg_popup.configure and xdg_surface.configure are sent
XdgSurface_GetPopup(x) ==
    /\ x \in DOMAIN xdg_surfaces
    /\ Len(popups) < MaxPopups
    /\ LET surface_id == xdg_surfaces[x].surface_id
       IN  /\ surfaces' = IF surface_id \in DOMAIN surfaces
                          THEN [surfaces EXCEPT ![surface_id] =
                                   Surface_set_role(@, "XdgPopup").surface]
                          ELSE surfaces
           /\ popups' = Append(popups, PopupData(surface_id))
           /\ serial' = fetch_add_new(serial)
           /\ issued' = Append(issued, next_serial_ret(serial))
           /\ events' = events \o
                  <<[event |-> "xdg_popup.configure", popup |-> Len(popups) + 1,
                     x |-> 0, y |-> 0, width |-> 200, height |-> 200],
                    [event |-> "xdg_surface.configure", xdg_surface |-> x,
                     serial |-> next_serial_ret(serial)]>>
           /\ last' = [op |-> "get_popup", xdg_surface |-> x, surface |-> surface_id]
    /\ UNCHANGED <<xdg_surfaces, acked, toplevels, winVars, hostVars, shmVars, libVars,
                   surface_counter, attached, wl_callbacks, panicked>>

\* xdg_surface.ack_configure: logged only
XdgSurface_AckConfigure(x, ack) ==
    /\ x \in DOMAIN xdg_surfaces
    /\ acked' = [acked EXCEPT ![x] = @ \cup {ack}]
    /\ last' = [op |-> "ack_configure", xdg_surface |-> x, serial |-> ack]
    /\ UNCHANGED <<xdg_surfaces, toplevels, popups, winVars, hostVars, serialVars, shmVars, libVars,
                   surfVars, panicked, events>>

\* WindowManager::remove that leaves the surface's entry in surface_to_window
WindowManager_remove_keeps_entry(id) ==
    [windows |-> Without(windows, id), surface_to_window |-> surface_to_window,
     focused_window |-> IF focused_window = Some(id) THEN None ELSE focused_window]

\* WindowManager::remove: the fields of the manager afterwards
WindowManager_remove(id) ==
    IF id \in DOMAIN windows
    THEN [windows |-> Without(windows, id),
          surface_to_window |-> Without(surface_to_window, windows[id].surface_id),
          focused_window |-> IF focused_window = Some(id) THEN None ELSE focused_window]
    ELSE [windows |-> windows, surface_to_window |-> surface_to_window,
          focused_window |-> focused_window]

\* xdg_toplevel.destroy: the native window is removed and closed (macOS), the
\* window is removed from the WindowManager
XdgToplevel_Destroy(toplevel) ==
    /\ toplevel \in DOMAIN toplevels
    /\ LET window_id == toplevels[toplevel].window_id
       IN  /\ native_windows' = IF target_os = "macos"
                                THEN Without(native_windows, window_id)
                                ELSE native_windows
           /\ \E r \in {WindowManager_remove(window_id)} :
                  /\ windows' = r.windows
                  /\ surface_to_window' = r.surface_to_window
                  /\ focused_window' = r.focused_window
           /\ last' = [op |-> "toplevel_destroy", toplevel |-> toplevel,
                       window |-> window_id,
                       native |-> window_id \in DOMAIN native_windows,
                       mapped |-> \E s \in DOMAIN surface_to_window :
                                      surface_to_window[s] = window_id]
    /\ UNCHANGED <<window_counter, target_os, mtm, xdgVars, serialVars, shmVars, libVars, surfVars,
                   panicked, events>>

\* WayoaWindowDelegate::window_will_close: the host closes the native window
\* of a toplevel; the delegate writes a debug! line and does nothing else
\* ("TODO: Send close request to Wayland client")
WayoaWindowDelegate_window_will_close(window_id) ==
    /\ ~panicked
    /\ window_id \in DOMAIN native_windows
    /\ last' = [op |-> "window_will_close", window |-> window_id]
    /\ UNCHANGED <<serverVars, libVars, panicked, events>>

\* the xdg_shell requests of a client that has created one wl_surface, the
\* surface's attach and commit, and its destruction
NextXdg ==
    \/ \E s \in DOMAIN surfaces : XdgWmBase_GetXdgSurface(s)
    \/ \E x \in DOMAIN xdg_surfaces : XdgSurface_GetToplevel(x)
    \/ \E x \in DOMAIN xdg_surfaces : XdgSurface_GetPopup(x)
    \/ \E x \in DOMAIN xdg_surfaces, ack \in AckSerials : XdgSurface_AckConfigure(x, ack)
    \/ \E s \in DOMAIN surfaces, b \in WlBuffers \cup {0} : WlSurface_Attach(s, b)
    \/ \E s \in DOMAIN surfaces : WlSurface_Commit(s)
    \/ \E s \in DOMAIN surfaces : WlSurface_Destroy(s)
    \/ \E toplevel \in DOMAIN toplevels : XdgToplevel_Destroy(toplevel)
    \/ \E w \in DOMAIN native_windows : WayoaWindowDelegate_window_will_close(w)

SpecXdg == InitXdg /\ [][NextXdg]_vars

\* WayoaWindow::set_maximized and set_fullscreen: the NSWindow is toggled
\* when it is not in the state asked for
WayoaWindow_set_maximized(native_window, maximized) ==
    [native_window EXCEPT !.zoomed = maximized]

WayoaWindow_set_fullscreen(native_window, fullscreen) ==
    [native_window EXCEPT !.fullscreen = fullscreen]

\* Window::set_maximized and Window::set_fullscreen
Window_set_maximized(window, maximized) == [window EXCEPT !.state.maximized = maximized]

Window_set_fullscreen(window, fullscreen) == [window EXCEPT !.state.fullscreen = fullscreen]

\* xdg_toplevel.set_maximized and unset_maximized: the window of the
\* toplevel, when the manager still has it, and in a macOS build its native
\* window, when there is one
ToplevelMaximized(toplevel, maximized, op) ==
    /\ toplevel \in DOMAIN toplevels
    /\ LET window_id == toplevels[toplevel].window_id
       IN  /\ windows' = IF window_id \in DOMAIN windows
                         THEN [windows EXCEPT ![window_id].maximized = maximized]
                         ELSE windows
           /\ native_windows' = IF target_os = "macos" /\ window_id \in DOMAIN native_windows
                                THEN [native_windows EXCEPT ![window_id] =
                                         WayoaWindow_set_maximized(@, maximized)]
                                ELSE native_windows
           /\ last' = [op |-> op, toplevel |-> toplevel, window |-> window_id]
    /\ UNCHANGED <<surface_to_window, focused_window, window_counter, target_os, mtm, xdgVars,
                   serialVars, shmVars, surfVars, libVars, panicked, events>>

XdgToplevel_SetMaximized(toplevel) == ToplevelMaximized(toplevel, TRUE, "set_maximized")

XdgToplevel_UnsetMaximized(toplevel) == ToplevelMaximized(toplevel, FALSE, "unset_maximized")

\* xdg_toplevel.set_fullscreen and unset_fullscreen
ToplevelFullscreen(toplevel, fullscreen, op) ==
    /\ toplevel \in DOMAIN toplevels
    /\ LET window_id == toplevels[toplevel].window_id
       IN  /\ windows' = IF window_id \in DOMAIN windows
                         THEN [windows EXCEPT ![window_id].fullscreen = fullscreen]
                         ELSE windows
           /\ native_windows' = IF target_os = "macos" /\ window_id \in DOMAIN native_windows
                                THEN [native_windows EXCEPT ![window_id] =
                                         WayoaWindow_set_fullscreen(@, fullscreen)]
                                ELSE native_windows
           /\ last' = [op |-> op, toplevel |-> toplevel, window |-> window_id]
    /\ UNCHANGED <<surface_to_window, focused_window, window_counter, target_os, mtm, xdgVars,
                   serialVars, shmVars, surfVars, libVars, panicked, events>>

XdgToplevel_SetFullscreen(toplevel) == ToplevelFullscreen(toplevel, TRUE, "set_fullscreen")

XdgToplevel_UnsetFullscreen(toplevel) == ToplevelFullscreen(toplevel, FALSE, "unset_fullscreen")

\* the setters called on a window of the manager
Window_SetMaximized(id, maximized) ==
    /\ id \in DOMAIN windows
    /\ windows' = [windows EXCEPT ![id] = Window_set_maximized(@, maximized)]
    /\ last' = [op |-> "Window::set_maximized", window |-> id, value |-> maximized]
    /\ UNCHANGED <<surface_to_window, focused_window, window_counter, hostVars, xdgVars,
                   serialVars, shmVars, surfVars, libVars, panicked, events>>

Window_SetFullscreen(id, fullscreen) ==
    /\ id \in DOMAIN windows
    /\ windows' = [windows EXCEPT ![id] = Window_set_fullscreen(@, fullscreen)]
    /\ last' = [op |-> "Window::set_fullscreen", window |-> id, value |-> fullscreen]
    /\ UNCHANGED <<surface_to_window, focused_window, window_counter, hostVars, xdgVars,
                   serialVars, shmVars, surfVars, libVars, panicked, events>>

\* a toplevel, its native window, and the requests and setters that make it
\* maximized or fullscreen
NextWindowState ==
    \/ \E s \in DOMAIN surfaces : XdgWmBase_GetXdgSurface(s)
    \/ \E x \in DOMAIN xdg_surfaces : XdgSurface_GetToplevel(x)
    \/ \E s \in DOMAIN surfaces : WlSurface_Commit(s)
    \/ \E toplevel \in DOMAIN toplevels : XdgToplevel_SetMaximized(toplevel)
    \/ \E toplevel \in DOMAIN toplevels : XdgToplevel_UnsetMaximized(toplevel)
    \/ \E toplevel \in DOMAIN toplevels : XdgToplevel_SetFullscreen(toplevel)
    \/ \E toplevel \in DOMAIN toplevels : XdgToplevel_UnsetFullscreen(toplevel)
    \/ \E id \in DOMAIN windows, maximized \in BOOLEAN : Window_SetMaximized(id, maximized)
    \/ \E id \in DOMAIN windows, fullscreen \in BOOLEAN : Window_SetFullscreen(id, fullscreen)

SpecWindowState == InitXdg /\ [][NextWindowState]_vars

\* the life of the toplevels of one wl_surface: creation, the commits that
\* create their native windows, and xdg_toplevel.destroy
NextToplevel ==
    \/ \E s \in DOMAIN surfaces : XdgWmBase_GetXdgSurface(s)
    \/ \E x \in DOMAIN xdg_surfaces : XdgSurface_GetToplevel(x)
    \/ \E s \in DOMAIN surfaces, b \in WlBuffers : WlSurface_Attach(s, b)
    \/ \E s \in DOMAIN surfaces : WlSurface_Commit(s)
    \/ \E toplevel \in DOMAIN toplevels : XdgToplevel_Destroy(toplevel)

SpecToplevel == InitXdg /\ [][NextToplevel]_vars

\* ------------------------------------------- protocol::shell (the library)
\* XdgSurface, as XdgShellHandler::get_xdg_surface returns it
XdgSurface(surface_id) == [surface_id |-> surface_id, configured |-> FALSE, geometry |-> None]

\* Surface::set_role, called on a surface of the SurfaceManager
SurfaceSetRole(surface_id, role) ==
    /\ surface_id \in DOMAIN surfaces
    /\ \E r \in {Surface_set_role(surfaces[surface_id], role)} :
          /\ surfaces' = [surfaces EXCEPT ![surface_id] = r.surface]
          /\ last' = [op |-> "set_role", surface |-> surface_id, role |-> role,
                      before |-> surfaces[surface_id].role, ret |-> r.ret]
    /\ UNCHANGED <<surface_counter, attached, wl_callbacks, panicked, events, notSurf>>

\* XdgShellHandler::get_xdg_surface
XdgShellHandler_get_xdg_surface(surface_id) ==
    /\ Len(xdg_surfaces) < MaxXdgSurfaces
    /\ IF surface_id \in DOMAIN surfaces
       THEN /\ xdg_surfaces' = Append(xdg_surfaces, XdgSurface(surface_id))
            /\ acked' = Append(acked, {})
            /\ last' = [op |-> "get_xdg_surface", surface |-> surface_id, ret |-> "Ok"]
       ELSE /\ last' = [op |-> "get_xdg_surface", surface |-> surface_id,
                        ret |-> "InvalidSurface"]
            /\ UNCHANGED <<xdg_surfaces, acked>>
    /\ UNCHANGED <<toplevels, popups, winVars, hostVars, serialVars, shmVars, libVars, surfVars,
                   panicked, events>>

\* XdgShellHandler::get_toplevel
XdgShellHandler_get_toplevel(x) ==
    /\ x \in DOMAIN xdg_surfaces
    /\ window_counter <= MaxWindows
    /\ LET surface_id == xdg_surfaces[x].surface_id
       IN  IF surface_id \notin DOMAIN surfaces
           THEN /\ last' = [op |-> "get_toplevel", xdg_surface |-> x, surface |-> surface_id,
                            ret |-> "InvalidSurface"]
                /\ UNCHANGED <<surfaces, winVars>>
           ELSE \E r \in {Surface_set_role(surfaces[surface_id], "XdgToplevel")} :
                  IF r.ret = "Err"
                  THEN /\ last' = [op |-> "get_toplevel", xdg_surface |-> x,
                                   surface |-> surface_id, ret |-> "RoleAlreadySet"]
                       /\ UNCHANGED <<surfaces, winVars>>
                  ELSE /\ surfaces' = [surfaces EXCEPT ![surface_id] = r.surface]
                       /\ windows' = Insert(windows, window_counter,
                                            Window_new(window_counter, surface_id))
                       /\ surface_to_window' = Insert(surface_to_window, surface_id,
                                                      window_counter)
                       /\ window_counter' = window_counter + 1
                       /\ last' = [op |-> "get_toplevel", xdg_surface |-> x,
                                   surface |-> surface_id, ret |-> "Ok"]
                       /\ UNCHANGED focused_window
    /\ UNCHANGED <<xdgVars, hostVars, serialVars, shmVars, libVars, surface_counter, attached,
                   wl_callbacks, panicked, events>>

\* XdgSurface::ack_configure
XdgSurface_ack_configure(x, ack) ==
    /\ x \in DOMAIN xdg_surfaces
    /\ xdg_surfaces' = [xdg_surfaces EXCEPT ![x].configured = TRUE]
    /\ last' = [op |-> "ack_configure", xdg_surface |-> x, serial |-> ack]
    /\ UNCHANGED <<acked, toplevels, popups, winVars, hostVars, serialVars, shmVars, libVars, surfVars,
                   panicked, events>>

\* calls into compositor::surface and protocol::shell, for one surface
NextShell ==
    \/ \E s \in DOMAIN surfaces, role \in SurfaceRoles : SurfaceSetRole(s, role)
    \/ \E s \in DOMAIN surfaces \cup {surface_counter} : XdgShellHandler_get_xdg_surface(s)
    \/ \E x \in DOMAIN xdg_surfaces : XdgShellHandler_get_toplevel(x)
    \/ \E x \in DOMAIN xdg_surfaces, ack \in AckSerials : XdgSurface_ack_configure(x, ack)

SpecShell == Init /\ [][NextShell]_vars

\* ------------------------------------------------------------- identities
\* the threads that allocate identities
Threads == {1, 2}

\* COUNTER.fetch_add(1, Ordering::Relaxed) that leaves the counter as it was
COUNTER_fetch_add_stuck(counter) == counter

\* COUNTER.fetch_add(1, Ordering::Relaxed): the counter after the call; the
\* call returns the counter before it
COUNTER_fetch_add(counter) == AddBytes(counter, NatToBytes(1, 8), 8)

IdsIssued ==
    Len(id_issued["SurfaceId"]) + Len(id_issued["WindowId"]) + Len(id_issued["OutputId"])
    + Len(id_issued["ClientId"]) + Len(id_issued["ShmPoolId"]) + Len(id_issued["ShmBufferId"])

\* SurfaceId::new, WindowId::new, ... called by a thread: one atomic
\* read-modify-write of the kind's COUNTER
Id_new(kind, thread) ==
    /\ IdsIssued < MaxIds
    /\ COUNTER' = [COUNTER EXCEPT ![kind] = COUNTER_fetch_add(@)]
    /\ id_issued' = [id_issued EXCEPT ![kind] = Append(@, [id |-> COUNTER[kind],
                                                            thread |-> thread])]
    /\ id_live' = [id_live EXCEPT ![kind] = @ \cup {COUNTER[kind]}]
    /\ last' = [op |-> "id_new", kind |-> kind, thread |-> thread, id |-> COUNTER[kind]]
    /\ UNCHANGED <<serverVars, moreVars, positioner, data_offer, frame, layer_surface, keyboard,
                   panicked, events>>

\* the entity of an identity is removed from its store and dropped
Id_remove(kind, id) ==
    /\ id \in id_live[kind]
    /\ id_live' = [id_live EXCEPT ![kind] = @ \ {id}]
    /\ last' = [op |-> "id_remove", kind |-> kind, id |-> id]
    /\ UNCHANGED <<serverVars, moreVars, positioner, data_offer, frame, layer_surface, keyboard,
                   COUNTER, id_issued, panicked, events>>

NextIds ==
    \/ \E kind \in IdKinds, thread \in Threads : Id_new(kind, thread)
    \/ \E kind \in IdKinds : \E id \in id_live[kind] : Id_remove(kind, id)

SpecIds == InitServer /\ [][NextIds]_vars

\* ---------------------------------------------------------- xdg_positioner
Anchors ==
    {"None", "Top", "Bottom", "Left", "Right", "TopLeft", "TopRight", "BottomLeft",
     "BottomRight"}

\* the values a client puts into set_size, set_anchor_rect and set_offset
PopupSizes == {<<200, 100>>, <<3, 1>>}
AnchorRects == {<<10, 20, 100, 50>>, <<I32Max, 0, 1, 0>>}
Offsets == {<<0, 0>>, <<-5, 7>>}

\* XdgPositioner::calculate_geometry: a panic in a build with overflow checks
\* when an addition or subtraction overflows, and the PopupGeometry otherwise
XdgPositioner_calculate_geometry(p) ==
    LET ax == I32(p.anchor_rect[1])
        ay == I32(p.anchor_rect[2])
        aw == I32(p.anchor_rect[3])
        ah == I32(p.anchor_rect[4])
        anchor_point ==
            CASE p.anchor = "None" -> <<AddI32(ax, HalfI32(aw)), AddI32(ay, HalfI32(ah))>>
              [] p.anchor = "Top" -> <<AddI32(ax, HalfI32(aw)), ay>>
              [] p.anchor = "Bottom" -> <<AddI32(ax, HalfI32(aw)), AddI32(ay, ah)>>
              [] p.anchor = "Left" -> <<ax, AddI32(ay, HalfI32(ah))>>
              [] p.anchor = "Right" -> <<AddI32(ax, aw), AddI32(ay, HalfI32(ah))>>
              [] p.anchor = "TopLeft" -> <<ax, ay>>
              [] p.anchor = "TopRight" -> <<AddI32(ax, aw), ay>>
              [] p.anchor = "BottomLeft" -> <<ax, AddI32(ay, ah)>>
              [] p.anchor = "BottomRight" -> <<AddI32(ax, aw), AddI32(ay, ah)>>
        anchor_x == anchor_point[1]
        anchor_y == anchor_point[2]
        popup_w == I32(p.size[1])
        popup_h == I32(p.size[2])
        xy ==
            CASE p.gravity = "None" ->
                     <<SubI32(anchor_x, HalfI32(popup_w)), SubI32(anchor_y, HalfI32(popup_h))>>
              [] p.gravity = "Top" ->
                     <<SubI32(anchor_x, HalfI32(popup_w)), SubI32(anchor_y, popup_h)>>
              [] p.gravity = "Bottom" -> <<SubI32(anchor_x, HalfI32(popup_w)), anchor_y>>
              [] p.gravity = "Left" ->
                     <<SubI32(anchor_x, popup_w), SubI32(anchor_y, HalfI32(popup_h))>>
              [] p.gravity = "Right" -> <<anchor_x, SubI32(anchor_y, HalfI32(popup_h))>>
              [] p.gravity = "TopLeft" ->
                     <<SubI32(anchor_x, popup_w), SubI32(anchor_y, popup_h)>>
              [] p.gravity = "TopRight" -> <<anchor_x, SubI32(anchor_y, popup_h)>>
              [] p.gravity = "BottomLeft" -> <<SubI32(anchor_x, popup_w), anchor_y>>
              [] p.gravity = "BottomRight" -> <<anchor_x, anchor_y>>
        x == AddI32(xy[1], I32(p.offset[1]))
        y == AddI32(xy[2], I32(p.offset[2]))
    IN  IF overflow_checks /\ (x.o \/ y.o) THEN [panic |-> TRUE]
        ELSE [panic |-> FALSE, x |-> x.v, y |-> y.v, width |-> p.size[1],
              height |-> p.size[2]]

notPositioner == <<serverVars, data_offer, frame, layer_surface, keyboard, idVars, moreVars>>

\* XdgPositioner::set_size, set_anchor_rect, set_anchor, set_gravity, set_offset
XdgPositioner_set_size(size) ==
    /\ ~panicked
    /\ positioner' = [positioner EXCEPT !.size = size]
    /\ last' = [op |-> "set_size", size |-> size]
    /\ UNCHANGED <<notPositioner, panicked, events>>

XdgPositioner_set_anchor_rect(rect) ==
    /\ ~panicked
    /\ positioner' = [positioner EXCEPT !.anchor_rect = rect]
    /\ last' = [op |-> "set_anchor_rect", rect |-> rect]
    /\ UNCHANGED <<notPositioner, panicked, events>>

XdgPositioner_set_anchor(anchor) ==
    /\ ~panicked
    /\ positioner' = [positioner EXCEPT !.anchor = anchor]
    /\ last' = [op |-> "set_anchor", anchor |-> anchor]
    /\ UNCHANGED <<notPositioner, panicked, events>>

XdgPositioner_set_gravity(gravity) ==
    /\ ~panicked
    /\ positioner' = [positioner EXCEPT !.gravity = gravity]
    /\ last' = [op |-> "set_gravity", gravity |-> gravity]
    /\ UNCHANGED <<notPositioner, panicked, events>>

XdgPositioner_set_offset(offset) ==
    /\ ~panicked
    /\ positioner' = [positioner EXCEPT !.offset = offset]
    /\ last' = [op |-> "set_offset", offset |-> offset]
    /\ UNCHANGED <<notPositioner, panicked, events>>

\* a call of calculate_geometry on the positioner
XdgPositioner_CalculateGeometry ==
    \E ret \in {XdgPositioner_calculate_geometry(positioner)} :
        /\ ~panicked
        /\ panicked' = ret.panic
        /\ last' = [op |-> "calculate_geometry", ret |-> ret]
        /\ UNCHANGED <<notPositioner, positioner, events>>

\* a library object in a build with (debug) or without (release) overflow checks
InitLib ==
    /\ serial = SerialNew
    /\ issued = <<>>
    /\ overflow_checks \in BOOLEAN
    /\ ShmInitial
    /\ SurfInitial
    /\ ShellInitial
    /\ HostInitial("other")
    /\ LibInitial

NextPositioner ==
    \/ \E size \in PopupSizes : XdgPositioner_set_size(size)
    \/ \E rect \in AnchorRects : XdgPositioner_set_anchor_rect(rect)
    \/ \E anchor \in Anchors : XdgPositioner_set_anchor(anchor)
    \/ \E gravity \in Anchors : XdgPositioner_set_gravity(gravity)
    \/ \E offset \in Offsets : XdgPositioner_set_offset(offset)
    \/ XdgPositioner_CalculateGeometry

SpecPositioner == InitLib /\ [][NextPositioner]_vars

\* ------------------------------------------------------------- data_device
\* DndActions: the bit masks over COPY = 1, MOVE = 2, ASK = 4
DndActions == 0..7
DndActions_COPY == 1
DndActions_MOVE == 2
DndActions_ASK == 4
DndAction == {"None", "Copy", "Move", "Ask"}

\* DndActions::contains(flag) for a one-bit flag, and DndActions::intersection
DndActions_contains(mask, flag) == (mask \div flag) % 2 = 1

DndActions_intersection(a, b) ==
    (IF DndActions_contains(a, 1) /\ DndActions_contains(b, 1) THEN 1 ELSE 0)
    + (IF DndActions_contains(a, 2) /\ DndActions_contains(b, 2) THEN 2 ELSE 0)
    + (IF DndActions_contains(a, 4) /\ DndActions_contains(b, 4) THEN 4 ELSE 0)

\* DataOffer::set_actions: the offer afterwards
DataOffer_set_actions(offer, actions, preferred) ==
    LET available == DndActions_intersection(offer.source_actions, actions)
    IN  [offer EXCEPT
            !.preferred_action = preferred,
            !.action =
                IF DndActions_contains(available, DndActions_COPY) /\ preferred = "Copy"
                THEN "Copy"
                ELSE IF DndActions_contains(available, DndActions_MOVE) /\ preferred = "Move"
                THEN "Move"
                ELSE IF DndActions_contains(available, DndActions_ASK) /\ preferred = "Ask"
                THEN "Ask"
                ELSE IF DndActions_contains(available, DndActions_COPY) THEN "Copy"
                ELSE IF DndActions_contains(available, DndActions_MOVE) THEN "Move"
                ELSE "None"]

\* a call of set_actions on the offer
DataOffer_SetActions(actions, preferred) ==
    /\ data_offer' = DataOffer_set_actions(data_offer, actions, preferred)
    /\ last' = [op |-> "set_actions", actions |-> actions, preferred |-> preferred]
    /\ UNCHANGED <<serverVars, positioner, frame, layer_surface, keyboard, idVars, moreVars,
                   panicked,
                   events>>

\* an offer made from a source with any DnD actions
InitDataOffer ==
    /\ serial = SerialNew
    /\ issued = <<>>
    /\ overflow_checks = FALSE
    /\ ShmInitial
    /\ SurfInitial
    /\ ShellInitial
    /\ HostInitial("other")
    /\ positioner = XdgPositioner_new
    /\ \E source_actions \in DndActions : data_offer = DataOffer_new(source_actions)
    /\ frame = ScreencopyFrame_new
    /\ layer_surface = LayerSurface_new
    /\ keyboard = Keyboard_new
    /\ IdInitial
    /\ MoreInitial

NextDataOffer ==
    \E actions \in DndActions, preferred \in DndAction : DataOffer_SetActions(actions, preferred)

SpecDataOffer == InitDataOffer /\ [][NextDataOffer]_vars

\* -------------------------------------------------------------- screencopy
\* the buffer formats the compositor announces and the buffers a client gives
FrameBufferInfos ==
    {[format |-> 0, width |-> 1920, height |-> 1080, stride |-> 7680],
     [format |-> 1, width |-> 640, height |-> 480, stride |-> 2560]}
FrameBuffers == {1, 2}

\* ScreencopyFrame::set_buffer_info, copy, done, fail: the frame afterwards
ScreencopyFrame_set_buffer_info(f, info) ==
    [f EXCEPT !.buffer_info = Some(info), !.state = "Ready"]

ScreencopyFrame_copy(f, buffer) == [f EXCEPT !.buffer = Some(buffer), !.state = "Copying"]

ScreencopyFrame_done(f) == [f EXCEPT !.state = "Done"]

ScreencopyFrame_fail(f) == [f EXCEPT !.state = "Failed"]

notFrame == <<serverVars, positioner, data_offer, layer_surface, keyboard, idVars, moreVars>>

\* the calls on the frame; last keeps the state the call found
ScreencopyFrame_SetBufferInfo(info) ==
    /\ frame' = ScreencopyFrame_set_buffer_info(frame, info)
    /\ last' = [op |-> "set_buffer_info", from |-> frame.state]
    /\ UNCHANGED <<notFrame, panicked, events>>

ScreencopyFrame_Copy(buffer) ==
    /\ frame' = ScreencopyFrame_copy(frame, buffer)
    /\ last' = [op |-> "copy", from |-> frame.state]
    /\ UNCHANGED <<notFrame, panicked, events>>

ScreencopyFrame_Done ==
    /\ frame' = ScreencopyFrame_done(frame)
    /\ last' = [op |-> "done", from |-> frame.state]
    /\ UNCHANGED <<notFrame, panicked, events>>

ScreencopyFrame_Fail ==
    /\ frame' = ScreencopyFrame_fail(frame)
    /\ last' = [op |-> "fail", from |-> frame.state]
    /\ UNCHANGED <<notFrame, panicked, events>>

NextFrame ==
    \/ \E info \in FrameBufferInfos : ScreencopyFrame_SetBufferInfo(info)
    \/ \E buffer \in FrameBuffers : ScreencopyFrame_Copy(buffer)
    \/ ScreencopyFrame_Done
    \/ ScreencopyFrame_Fail

SpecFrame == InitServer /\ [][NextFrame]_vars

\* ------------------------------------------------------------- layer_shell
\* Anchor: the bit masks over TOP = 1, BOTTOM = 2, LEFT = 4, RIGHT = 8
Anchor_TOP == 1
Anchor_BOTTOM == 2
Anchor_LEFT == 4
Anchor_RIGHT == 8

\* Anchor::contains for a one-bit flag
Anchor_contains(mask, flag) == (mask \div flag) % 2 = 1

\* the values a client puts into set_size, set_anchor and set_margin, and the
\* sizes of the outputs
LayerSizes == {<<0, 0>>, <<0, 50>>, <<300, 200>>}
LayerAnchors == {0, 3, 8, 13, 15}
LayerMargins == {<<0, 0, 0, 0>>, <<10, 20, 30, 40>>, <<0, 1000, 0, 1000>>}
OutputSizes == {<<1920, 1080>>, <<800, 600>>}

\* LayerSurface::calculate_geometry: a panic in a build with overflow checks
\* when an operation overflows, and (x, y, width, height) otherwise
LayerSurface_calculate_geometry(s, output_width, output_height) ==
    LET margin_top == I32(s.margin[1])
        margin_right == I32(s.margin[2])
        margin_bottom == I32(s.margin[3])
        margin_left == I32(s.margin[4])
        h_margin == AddI32(margin_left, margin_right)
        v_margin == AddI32(margin_top, margin_bottom)
        stretch_w == /\ Anchor_contains(s.anchor, Anchor_LEFT)
                     /\ Anchor_contains(s.anchor, Anchor_RIGHT)
                     /\ s.size[1] = 0
        stretch_h == /\ Anchor_contains(s.anchor, Anchor_TOP)
                     /\ Anchor_contains(s.anchor, Anchor_BOTTOM)
                     /\ s.size[2] = 0
        w == IF stretch_w
             THEN LET d == SubU32(output_width, I32AsU32(h_margin.v))
                  IN  [v |-> d.v, o |-> d.o \/ h_margin.o]
             ELSE [v |-> U32(s.size[1]), o |-> FALSE]
        h == IF stretch_h
             THEN LET d == SubU32(output_height, I32AsU32(v_margin.v))
                  IN  [v |-> d.v, o |-> d.o \/ v_margin.o]
             ELSE [v |-> U32(s.size[2]), o |-> FALSE]
        x == IF Anchor_contains(s.anchor, Anchor_LEFT) THEN margin_left
             ELSE IF Anchor_contains(s.anchor, Anchor_RIGHT)
             THEN SubI32(SubI32(I32(U32AsI32(output_width)), I32(U32AsI32(w.v))),
                         margin_right)
             ELSE HalfI32(SubI32(I32(U32AsI32(output_width)), I32(U32AsI32(w.v))))
        y == IF Anchor_contains(s.anchor, Anchor_TOP) THEN margin_top
             ELSE IF Anchor_contains(s.anchor, Anchor_BOTTOM)
             THEN SubI32(SubI32(I32(U32AsI32(output_height)), I32(U32AsI32(h.v))),
                         margin_bottom)
             ELSE HalfI32(SubI32(I32(U32AsI32(output_height)), I32(U32AsI32(h.v))))
    IN  IF overflow_checks /\ (w.o \/ h.o \/ x.o \/ y.o) THEN [panic |-> TRUE]
        ELSE [panic |-> FALSE, x |-> x.v, y |-> y.v, width |-> w.v, height |-> h.v]

notLayerSurface == <<serverVars, positioner, data_offer, frame, keyboard, idVars, moreVars>>

\* LayerSurface::set_size, set_anchor, set_margin
LayerSurface_set_size(size) ==
    /\ ~panicked
    /\ layer_surface' = [layer_surface EXCEPT !.size = size]
    /\ last' = [op |-> "layer_set_size", size |-> size]
    /\ UNCHANGED <<notLayerSurface, panicked, events>>

LayerSurface_set_anchor(anchor) ==
    /\ ~panicked
    /\ layer_surface' = [layer_surface EXCEPT !.anchor = anchor]
    /\ last' = [op |-> "layer_set_anchor", anchor |-> anchor]
    /\ UNCHANGED <<notLayerSurface, panicked, events>>

LayerSurface_set_margin(margin) ==
    /\ ~panicked
    /\ layer_surface' = [layer_surface EXCEPT !.margin = margin]
    /\ last' = [op |-> "layer_set_margin", margin |-> margin]
    /\ UNCHANGED <<notLayerSurface, panicked, events>>

\* a call of calculate_geometry on the layer surface
LayerSurface_CalculateGeometry(output) ==
    \E ret \in {LayerSurface_calculate_geometry(layer_surface, U32(output[1]),
                                                U32(output[2]))} :
        /\ ~panicked
        /\ panicked' = ret.panic
        /\ last' = [op |-> "layer_calculate_geometry", output |-> output, ret |-> ret]
        /\ UNCHANGED <<notLayerSurface, layer_surface, events>>

NextLayerSurface ==
    \/ \E size \in LayerSizes : LayerSurface_set_size(size)
    \/ \E anchor \in LayerAnchors : LayerSurface_set_anchor(anchor)
    \/ \E margin \in LayerMargins : LayerSurface_set_margin(margin)
    \/ \E output \in OutputSizes : LayerSurface_CalculateGeometry(output)

SpecLayerSurface == InitLib /\ [][NextLayerSurface]_vars

\* ---------------------------------------------------------------- keyboard
\* the surfaces that get the focus, the keycodes and the modifier states
FocusSurfaces == {None, Some(1), Some(2)}
Keycodes == {30, 31}
ModifierStates ==
    {ModifierState_default, [depressed |-> 1, latched |-> 0, locked |-> 2, group |-> 0]}

\* Vec::contains and Vec::remove(position of the first k)
Contains(v, k) == \E i \in DOMAIN v : v[i] = k
RemoveFirst(v, k) ==
    LET idx == CHOOSE i \in DOMAIN v : v[i] = k /\ \A j \in 1..(i - 1) : v[j] # k
    IN  SubSeq(v, 1, idx - 1) \o SubSeq(v, idx + 1, Len(v))

\* Keyboard::set_focus that forgets the pressed keys
Keyboard_set_focus_drops_keys(kb, surface) ==
    [keyboard |-> [kb EXCEPT !.focus = surface, !.pressed_keys = <<>>],
     change |-> [old_focus |-> kb.focus, new_focus |-> surface, pressed_keys |-> <<>>]]

\* Keyboard::set_focus: the keyboard afterwards and the KeyboardFocusChange
Keyboard_set_focus(kb, surface) ==
    [keyboard |-> [kb EXCEPT !.focus = surface],
     change |-> [old_focus |-> kb.focus, new_focus |-> surface,
                 pressed_keys |-> kb.pressed_keys]]

\* Keyboard::key_press that does not look whether the key is pressed already
Keyboard_key_press_unchecked(kb, keycode) ==
    [keyboard |-> [kb EXCEPT !.pressed_keys = Append(@, keycode)], ret |-> TRUE]

\* Keyboard::key_press and key_release: the keyboard afterwards and the result
Keyboard_key_press(kb, keycode) ==
    IF ~Contains(kb.pressed_keys, keycode)
    THEN [keyboard |-> [kb EXCEPT !.pressed_keys = Append(@, keycode)], ret |-> TRUE]
    ELSE [keyboard |-> kb, ret |-> FALSE]

Keyboard_key_release(kb, keycode) ==
    IF Contains(kb.pressed_keys, keycode)
    THEN [keyboard |-> [kb EXCEPT !.pressed_keys = RemoveFirst(@, keycode)], ret |-> TRUE]
    ELSE [keyboard |-> kb, ret |-> FALSE]

\* Keyboard::update_modifiers
Keyboard_update_modifiers(kb, modifiers) == [kb EXCEPT !.modifiers = modifiers]

notKeyboard == <<serverVars, positioner, data_offer, frame, layer_surface, idVars, moreVars>>

\* the calls on the keyboard
Keyboard_SetFocus(surface) ==
    \E r \in {Keyboard_set_focus(keyboard, surface)} :
        /\ keyboard' = r.keyboard
        /\ last' = [op |-> "set_focus", surface |-> surface, change |-> r.change]
        /\ UNCHANGED <<notKeyboard, panicked, events>>

Keyboard_KeyPress(keycode) ==
    \E r \in {Keyboard_key_press(keyboard, keycode)} :
        /\ keyboard' = r.keyboard
        /\ last' = [op |-> "key_press", keycode |-> keycode, ret |-> r.ret]
        /\ UNCHANGED <<notKeyboard, panicked, events>>

Keyboard_KeyRelease(keycode) ==
    \E r \in {Keyboard_key_release(keyboard, keycode)} :
        /\ keyboard' = r.keyboard
        /\ last' = [op |-> "key_release", keycode |-> keycode, ret |-> r.ret]
        /\ UNCHANGED <<notKeyboard, panicked, events>>

Keyboard_UpdateModifiers(modifiers) ==
    /\ keyboard' = Keyboard_update_modifiers(keyboard, modifiers)
    /\ last' = [op |-> "update_modifiers", modifiers |-> modifiers]
    /\ UNCHANGED <<notKeyboard, panicked, events>>

NextKeyboard ==
    \/ \E surface \in FocusSurfaces : Keyboard_SetFocus(surface)
    \/ \E keycode \in Keycodes : Keyboard_KeyPress(keycode)
    \/ \E keycode \in Keycodes : Keyboard_KeyRelease(keycode)
    \/ \E modifiers \in ModifierStates : Keyboard_UpdateModifiers(modifiers)

SpecKeyboard == InitServer /\ [][NextKeyboard]_vars

\* ----------------------------------------------------------- WindowManager
\* WindowManager::set_focused that leaves the previous window focused
WindowManager_set_focused_keeps_previous(id) ==
    [windows |-> IF id # None /\ id[1] \in DOMAIN windows
                 THEN [windows EXCEPT ![id[1]].state.focused = TRUE,
                                      ![id[1]].state.activated = TRUE]
                 ELSE windows,
     focused_window |-> id]

\* WindowManager::set_focused: the manager afterwards
WindowManager_set_focused(id) ==
    LET unfocused ==
            IF focused_window # None /\ focused_window[1] \in DOMAIN windows
            THEN [windows EXCEPT ![focused_window[1]].state.focused = FALSE,
                                 ![focused_window[1]].state.activated = FALSE]
            ELSE windows
    IN  [windows |-> IF id # None /\ id[1] \in DOMAIN unfocused
                     THEN [unfocused EXCEPT ![id[1]].state.focused = TRUE,
                                            ![id[1]].state.activated = TRUE]
                     ELSE unfocused,
         focused_window |-> id]

notWin == <<serialVars, shmVars, surfVars, xdgVars, hostVars, libVars>>

\* WindowManager::create_window, called on the manager alone
WindowManager_create_window(surface_id) ==
    /\ window_counter <= MaxManagedWindows
    /\ windows' = Insert(windows, window_counter, Window_new(window_counter, surface_id))
    /\ surface_to_window' = Insert(surface_to_window, surface_id, window_counter)
    /\ window_counter' = window_counter + 1
    /\ last' = [op |-> "create_window", surface |-> surface_id, window |-> window_counter]
    /\ UNCHANGED <<focused_window, notWin, panicked, events>>

\* WindowManager::remove, also of a window that is not there
WindowManager_Remove(id) ==
    /\ \E r \in {WindowManager_remove(id)} :
           /\ windows' = r.windows
           /\ surface_to_window' = r.surface_to_window
           /\ focused_window' = r.focused_window
    /\ last' = [op |-> "remove", window |-> id]
    /\ UNCHANGED <<window_counter, notWin, panicked, events>>

\* WindowManager::set_focused, also with the id of no window
WindowManager_SetFocused(id) ==
    /\ \E r \in {WindowManager_set_focused(id)} :
           /\ windows' = r.windows
           /\ focused_window' = r.focused_window
    /\ last' = [op |-> "set_focused", id |-> id, prev |-> focused_window]
    /\ UNCHANGED <<surface_to_window, window_counter, notWin, panicked, events>>

NextWindows ==
    \/ \E surface_id \in 1..MaxSurfaces : WindowManager_create_window(surface_id)
    \/ \E id \in 1..MaxManagedWindows : WindowManager_Remove(id)
    \/ \E id \in {None} \cup {Some(i) : i \in 1..MaxManagedWindows} :
           WindowManager_SetFocused(id)

SpecWindows == InitServer /\ [][NextWindows]_vars

\* ----------------------------------------------------------- OutputManager
\* OutputManager::add that makes every added output the primary one
OutputManager_add_always_primary(id) ==
    [outputs |-> outputs \cup {id}, primary |-> Some(id)]

\* OutputManager::add of an output with the given id: the manager afterwards
OutputManager_add(id) ==
    [outputs |-> outputs \cup {id},
     primary |-> IF outputs = {} THEN Some(id) ELSE primary]

\* OutputManager::remove that leaves the primary as it is
OutputManager_remove_keeps_primary(id) == {[outputs |-> outputs \ {id}, primary |-> primary]}

\* OutputManager::remove: the managers it can leave; the primary that replaces
\* a removed primary is the first key of the HashMap, which can be any of them
OutputManager_remove(id) ==
    IF primary = Some(id)
    THEN {[outputs |-> outputs \ {id}, primary |-> next] :
             next \in IF outputs \ {id} = {} THEN {None}
                      ELSE {Some(k) : k \in outputs \ {id}}}
    ELSE {[outputs |-> outputs \ {id}, primary |-> primary]}

\* OutputManager::set_primary
OutputManager_set_primary(id) ==
    [outputs |-> outputs, primary |-> IF id \in outputs THEN Some(id) ELSE primary]

\* OutputManager::primary
OutputManager_primary == IF primary # None /\ primary[1] \in outputs THEN primary ELSE None

notOutputs == <<serverVars, positioner, data_offer, frame, layer_surface, keyboard, idVars,
                clients, connections, region>>

\* the calls on the manager
OutputManager_Add(id) ==
    /\ \E r \in {OutputManager_add(id)} :
           /\ outputs' = r.outputs
           /\ primary' = r.primary
    /\ last' = [op |-> "output_add", id |-> id]
    /\ UNCHANGED <<notOutputs, panicked, events>>

OutputManager_Remove(id) ==
    /\ \E r \in OutputManager_remove(id) :
           /\ outputs' = r.outputs
           /\ primary' = r.primary
    /\ last' = [op |-> "output_remove", id |-> id]
    /\ UNCHANGED <<notOutputs, panicked, events>>

OutputManager_SetPrimary(id) ==
    /\ \E r \in {OutputManager_set_primary(id)} :
           /\ outputs' = r.outputs
           /\ primary' = r.primary
    /\ last' = [op |-> "set_primary", id |-> id]
    /\ UNCHANGED <<notOutputs, panicked, events>>

NextOutputs ==
    \/ \E id \in 1..MaxOutputs : OutputManager_Add(id)
    \/ \E id \in 1..MaxOutputs : OutputManager_Remove(id)
    \/ \E id \in 1..MaxOutputs : OutputManager_SetPrimary(id)

SpecOutputs == InitServer /\ [][NextOutputs]_vars

\* ------------------------------------------------- CompositorState clients
notClients == <<serverVars, positioner, data_offer, frame, layer_surface, keyboard,
                id_issued, id_live, outputs, primary, region>>

\* CompositorState::add_client: ClientId::new takes the ClientId COUNTER
CompositorState_add_client == clients \cup {COUNTER["ClientId"]}

\* CompositorState::remove_client
CompositorState_remove_client(id) == clients \ {id}

\* CompositorState::client_count
CompositorState_client_count == Cardinality(clients)

\* the accept source of WaylandServer: socket.accept yields a stream, and
\* add_client is called when insert_client took it
WaylandServer_accept(stream, inserted) ==
    /\ stream \notin connections
    /\ LeqBytes(COUNTER["ClientId"], NatToBytes(MaxClients, 8))
    /\ IF inserted
       THEN /\ connections' = connections \cup {stream}
            /\ clients' = CompositorState_add_client
            /\ COUNTER' = [COUNTER EXCEPT !["ClientId"] = COUNTER_fetch_add(@)]
       ELSE UNCHANGED <<connections, clients, COUNTER>>
    /\ last' = [op |-> "accept", stream |-> stream, inserted |-> inserted]
    /\ UNCHANGED <<notClients, panicked, events>>

\* dispatch_clients finds the stream of a client closed (EOF, ECONNRESET,
\* EPIPE): the display drops the client, whose data is Arc::new(()), and no
\* handler of the server calls remove_client
WaylandServer_client_disconnected(stream) ==
    /\ stream \in connections
    /\ connections' = connections \ {stream}
    /\ last' = [op |-> "disconnected", stream |-> stream]
    /\ UNCHANGED <<notClients, clients, COUNTER, panicked, events>>

NextClients ==
    \/ \E stream \in 1..MaxClients, inserted \in BOOLEAN : WaylandServer_accept(stream, inserted)
    \/ \E stream \in 1..MaxClients : WaylandServer_client_disconnected(stream)

SpecClients == InitServer /\ [][NextClients]_vars

\* ------------------------------------- protocol::shell: the roles of a surface
\* the positioners given to get_popup: the default one, and one whose anchor
\* point lies past the largest i32
PopupPositioners ==
    {XdgPositioner_new,
     [XdgPositioner_new EXCEPT !.size = <<200, 100>>, !.anchor_rect = <<I32Max, 0, 1, 0>>,
                               !.anchor = "Right"]}

\* XdgShellHandler::get_popup: the role and the parent are set before the
\* geometry is calculated, which panics on overflow in a build that checks it
XdgShellHandler_get_popup(x, parent, p) ==
    /\ x \in DOMAIN xdg_surfaces
    /\ LET surface_id == xdg_surfaces[x].surface_id
       IN  IF surface_id \notin DOMAIN surfaces
           THEN /\ last' = [op |-> "get_popup", xdg_surface |-> x, surface |-> surface_id,
                            ret |-> "InvalidSurface"]
                /\ UNCHANGED <<surfaces, panicked>>
           ELSE \E r \in {Surface_set_role(surfaces[surface_id], "XdgPopup")} :
                  IF r.ret = "Err"
                  THEN /\ last' = [op |-> "get_popup", xdg_surface |-> x,
                                   surface |-> surface_id, ret |-> "RoleAlreadySet"]
                       /\ UNCHANGED <<surfaces, panicked>>
                  ELSE \E geometry \in {XdgPositioner_calculate_geometry(p)} :
                         /\ surfaces' = [surfaces EXCEPT ![surface_id] =
                                            [r.surface EXCEPT !.parent = Some(parent)]]
                         /\ panicked' = geometry.panic
                         /\ last' = [op |-> "get_popup", xdg_surface |-> x,
                                     surface |-> surface_id,
                                     ret |-> IF geometry.panic THEN "panic" ELSE "Ok",
                                     popup |-> [surface_id |-> surface_id, parent |-> parent,
                                                geometry |-> geometry]]
    /\ UNCHANGED <<xdgVars, winVars, hostVars, serialVars, shmVars, libVars, surface_counter,
                   attached, wl_callbacks, events>>

\* one surface of a compositor built with or without overflow checks
InitRoles ==
    /\ serial = SerialNew
    /\ issued = <<>>
    /\ overflow_checks \in BOOLEAN
    /\ ShmInitial
    /\ surfaces = (1 :> Surface_new(1))
    /\ surface_counter = 2
    /\ attached = (1 :> [pending |-> None, current |-> 0])
    /\ wl_callbacks = 0
    /\ ShellInitial
    /\ HostInitial("other")
    /\ LibInitial

\* the calls that give the surface a role, and the removal of the surface;
\* nothing is called after a panic
NextRoles ==
    /\ ~panicked
    /\ \/ \E s \in DOMAIN surfaces, role \in SurfaceRoles : SurfaceSetRole(s, role)
       \/ \E s \in DOMAIN surfaces : XdgShellHandler_get_xdg_surface(s)
       \/ \E x \in DOMAIN xdg_surfaces : XdgShellHandler_get_toplevel(x)
       \/ \E x \in DOMAIN xdg_surfaces, parent \in 1..MaxSurfaces, p \in PopupPositioners :
              XdgShellHandler_get_popup(x, parent, p)
       \/ \E s \in DOMAIN surfaces : WlSurface_Destroy(s)

SpecRoles == InitRoles /\ [][NextRoles]_vars

\* ------------------------------------------------- protocol::compositor Region
\* the rectangles (x, y, width, height) of add and subtract, and the points
\* asked for: small ones, and ones next to the largest i32
RegionRects == {<<0, 0, 100, 100>>, <<50, 50, 10, 10>>, <<I32Max - 47, 0, 100, 100>>}
RegionPoints == {<<5, 5>>, <<55, 55>>, <<I32Max - 10, 5>>}

RegionRect(rect, add) ==
    [x |-> rect[1], y |-> rect[2], width |-> rect[3], height |-> rect[4], add |-> add]

\* in_rect of Region::contains: the conjunction is evaluated left to right
\* and stops at the first false; rect.x + rect.width and rect.y + rect.height
\* are i32 additions
in_rect(rect, px, py) ==
    IF ~(px >= rect.x) THEN [panic |-> FALSE, v |-> FALSE]
    ELSE LET right == AddI32(I32(rect.x), I32(rect.width))
         IN  IF right.o /\ overflow_checks THEN [panic |-> TRUE]
             ELSE IF ~(px < right.v) THEN [panic |-> FALSE, v |-> FALSE]
             ELSE IF ~(py >= rect.y) THEN [panic |-> FALSE, v |-> FALSE]
             ELSE LET bottom == AddI32(I32(rect.y), I32(rect.height))
                  IN  IF bottom.o /\ overflow_checks THEN [panic |-> TRUE]
                      ELSE [panic |-> FALSE, v |-> py < bottom.v]

\* the loop of Region::contains from rectangle i on
RECURSIVE contains_from(_, _, _, _, _)
contains_from(rects, i, inside, px, py) ==
    IF i > Len(rects) THEN [panic |-> FALSE, inside |-> inside]
    ELSE LET r == in_rect(rects[i], px, py)
         IN  IF r.panic THEN [panic |-> TRUE]
             ELSE contains_from(rects, i + 1,
                                IF rects[i].add /\ r.v THEN TRUE
                                ELSE IF ~rects[i].add /\ r.v THEN FALSE
                                ELSE inside,
                                px, py)

\* Region::contains
Region_contains(rects, px, py) == contains_from(rects, 1, FALSE, px, py)

notRegion == <<serverVars, positioner, data_offer, frame, layer_surface, keyboard, idVars,
               outputs, primary, clients, connections>>

\* Region::add and Region::subtract
Region_add(rect) ==
    /\ ~panicked
    /\ Len(region) < MaxRects
    /\ region' = Append(region, RegionRect(rect, TRUE))
    /\ last' = [op |-> "region_add", rect |-> rect]
    /\ UNCHANGED <<notRegion, panicked, events>>

Region_subtract(rect) ==
    /\ ~panicked
    /\ Len(region) < MaxRects
    /\ region' = Append(region, RegionRect(rect, FALSE))
    /\ last' = [op |-> "region_subtract", rect |-> rect]
    /\ UNCHANGED <<notRegion, panicked, events>>

\* a call of Region::contains
Region_Contains(px, py) ==
    \E ret \in {Region_contains(region, px, py)} :
        /\ ~panicked
        /\ panicked' = ret.panic
        /\ last' = [op |-> "contains", px |-> px, py |-> py, ret |-> ret]
        /\ UNCHANGED <<notRegion, region, events>>

NextRegion ==
    \/ \E rect \in RegionRects : Region_add(rect)
    \/ \E rect \in RegionRects : Region_subtract(rect)
    \/ \E p \in RegionPoints : Region_Contains(p[1], p[2])

SpecRegion == InitLib /\ [][NextRegion]_vars

\* ------------------------------------------------------------------ claims
\* C1: after a commit the surface's pending state is cleared: no pending
\* buffer, no pending damage, pending scale and pending transform unset (0).
C1_PendingCleared ==
    last.op = "commit"
        => LET pending == surfaces[last.surface].pending
           IN  /\ pending.buffer = None
               /\ pending.damage = <<>>
               /\ pending.scale = 0
               /\ pending.transform = 0

\* a commit that found a buffer, damage, a scale and a transform pending
C1_CommitOfFullPending ==
    /\ last.op = "commit"
    /\ last.pending.buffer # None
    /\ last.pending.damage # <<>>
    /\ last.pending.scale # 0
    /\ last.pending.transform # 0
    /\ surfaces[last.surface].buffer # None
    /\ surfaces[last.surface].scale = last.pending.scale

\* C2: a commit that follows an explicit attach of the null buffer leaves the
\* surface without a current buffer (attach(B), commit, attach(null), commit).
C2_NullAttachRemovesBuffer ==
    (last.op = "commit" /\ last.attach = Some(0))
        => surfaces[last.surface].buffer = None

\* the wl_buffer is the current buffer of some surface
CurrentSomewhere(b) == \E s \in DOMAIN attached : attached[s].current = b

\* the wl_buffer.release events sent for the wl_buffer
Releases(b) ==
    Cardinality({i \in DOMAIN events :
                    events[i].event = "wl_buffer.release" /\ events[i].buffer = b})

\* C3: a step sends exactly one release event for a wl_buffer when the buffer
\* stops being the current buffer of any surface (replaced by a commit, or its
\* surface destroyed), and none otherwise.
C3_ReleasedWhenReplaced ==
    [][\A b \in WlBuffers :
          Releases(b)' = Releases(b)
                         + (IF CurrentSomewhere(b) /\ ~CurrentSomewhere(b)' THEN 1 ELSE 0)]_vars

\* the protocol errors the server has posted to a client
PostedErrors == {events[i].code : i \in {k \in DOMAIN events : events[k].event = "error"}}

\* the serials of the xdg_surface.configure events sent on the xdg_surface
ConfigureSerials(x) ==
    {events[i].serial : i \in {k \in DOMAIN events :
                                  /\ events[k].event = "xdg_surface.configure"
                                  /\ events[k].xdg_surface = x}}

\* C4: an ack_configure whose serial was not issued in a configure on the same
\* xdg_surface is a protocol error and does not set the surface to configured.
C4_AckOnlyIssuedSerial ==
    (last.op = "ack_configure" /\ last.serial \notin ConfigureSerials(last.xdg_surface))
        => /\ PostedErrors # {}
           /\ ~xdg_surfaces[last.xdg_surface].configured

\* the surface has an xdg_surface that was sent a configure and has acked none
AwaitingInitialAck(s) ==
    \E x \in DOMAIN xdg_surfaces :
        /\ xdg_surfaces[x].surface_id = s
        /\ ConfigureSerials(x) # {}
        /\ acked[x] = {}

\* C5: a commit with a non-null buffer attached, on a surface that awaits the
\* ack of its initial configure, is rejected: a protocol error is posted and
\* the surface's current buffer stays what it was.
C5_CommitBeforeAckRejected ==
    (/\ last.op = "commit"
     /\ last.attach # None
     /\ last.attach # Some(0)
     /\ AwaitingInitialAck(last.surface))
        => /\ PostedErrors # {}
           /\ attached[last.surface].current = last.current

\* C6: a set_role with a role different from the surface's non-None role
\* returns an error and leaves the role unchanged; any other set_role succeeds
\* and assigns the role; and no step changes a role that is not None.
C6_RoleFixed ==
    [][\A s \in DOMAIN surfaces :
          s \in DOMAIN surfaces'
              => /\ surfaces[s].role # "None" => surfaces'[s].role = surfaces[s].role
                 /\ (last'.op = "set_role" /\ last'.surface = s)
                        => IF surfaces[s].role # "None" /\ last'.role # surfaces[s].role
                           THEN last'.ret = "Err" /\ surfaces'[s].role = surfaces[s].role
                           ELSE last'.ret = "Ok" /\ surfaces'[s].role = last'.role]_vars

\* a set_role with a different role has failed on a toplevel surface, after a
\* set_role with the same role has succeeded on it
C6_DifferentRoleRefused ==
    /\ last.op = "set_role"
    /\ last.before = "XdgToplevel"
    /\ last.role = "XdgPopup"
    /\ last.ret = "Err"
    /\ surfaces[last.surface].role = "XdgToplevel"

\* offset + stride * height of a request, exact
ExactEnd(rq) == AddBytes(AsUsize(U32(rq.offset)), StrideByHeight[rq], 9)

\* C7: a buffer that create_buffer has just created lies within its pool:
\* offset + stride * height <= size(pool), in exact arithmetic.
C7_BufferFitsPool ==
    (last.op = "create_buffer" /\ last.ret = "Ok")
        => LeqBytes(ExactEnd(last.rq), pools[last.pool].size)

\* C8: a create_buffer request with stride < width * 4 fails with InvalidStride,
\* creates no buffer, and the client is sent the protocol error invalid_stride.
C8_InvalidStrideReported ==
    (last.op = "create_buffer" /\ last.rq.stride < last.rq.width * 4)
        => /\ last.ret = "InvalidStride"
           /\ last.buffer = 0
           /\ "invalid_stride" \in PostedErrors

\* C9: a create_buffer request with width = 0 or height = 0 fails and adds no
\* buffer to the buffer table.
C9_ZeroSizeRejected ==
    (last.op = "create_buffer" /\ (last.rq.width = 0 \/ last.rq.height = 0))
        => /\ last.ret # "Ok"
           /\ last.buffer = 0

\* C10 as stated: every serial next_serial returns is strictly greater than
\* every serial it returned earlier.
C10_StrictlyGreater ==
    \A i, j \in DOMAIN issued : i < j => LessBytes(issued[i], issued[j])

\* C10 amended: every serial is its predecessor plus one modulo 2^32, and is
\* strictly greater than every earlier serial returned since the counter last
\* wrapped to 0.
C10_SuccessorModulo ==
    /\ \A i \in DOMAIN issued :
           i > 1 => issued[i] = AddBytes(issued[i - 1], U32(1), 4)
    /\ \A i, j \in DOMAIN issued :
           (i < j /\ \A k \in (i + 1)..j : issued[k] # U32(0))
               => LessBytes(issued[i], issued[j])

\* the counter has wrapped: 0xFFFFFFFF was returned, and then 0 and 1
C10_Wrapped ==
    \E i \in DOMAIN issued :
        /\ i + 2 <= Len(issued)
        /\ issued[i] = <<255, 255, 255, 255>>
        /\ issued[i + 1] = U32(0)
        /\ issued[i + 2] = U32(1)
\* the elements of a sequence
Range(seq) == {seq[i] : i \in DOMAIN seq}

\* the wl_callback ids the server still holds or has answered: those queued
\* on a surface, and those of the wl_callback.done events it has sent
CallbacksHeld ==
    UNION {Range(surfaces[s].pending.frame_callbacks) : s \in DOMAIN surfaces}
    \cup {events[i].callback : i \in {k \in DOMAIN events : events[k].event = "wl_callback.done"}}

\* C11: after a commit every frame-callback id that was queued on the surface
\* is still held by the compositor (moved to its ready-to-fire list, not lost),
\* and the surface's pending frame-callback queue is empty.
C11_CallbacksKept ==
    last.op = "commit"
        => /\ surfaces[last.surface].pending.frame_callbacks = <<>>
           /\ Range(last.pending.frame_callbacks) \subseteq CallbacksHeld

\* the point lies in the rectangle
InRect(x, y, r) == r.x <= x /\ x < r.x + r.width /\ r.y <= y /\ y < r.y + r.height

\* the four corner points of a rectangle
Corners(r) == {<<x, y>> : x \in {r.x, r.x + r.width - 1}, y \in {r.y, r.y + r.height - 1}}

\* every corner of the rectangle lies in a rectangle of the damage list
\* (necessary for the list to cover the rectangle)
CornersCovered(damage, r) ==
    \A p \in Corners(r) : \E i \in DOMAIN damage : InRect(p[1], p[2], damage[i])

\* C12: a commit merges the pending damage into the current damage: the
\* damage after the commit covers every rectangle that was pending and every
\* rectangle that was current before.
C12_DamageMerged ==
    [][last'.op = "commit"
          => \A r \in Range(surfaces[last'.surface].pending.damage)
                      \cup Range(surfaces[last'.surface].damage) :
                 CornersCovered(surfaces'[last'.surface].damage, r)]_vars

\* the current (committed) state of a surface, and its role
CurrentState(surface) ==
    [buffer |-> surface.buffer, damage |-> surface.damage, scale |-> surface.scale,
     transform |-> surface.transform, role |-> surface.role]

\* C13: a request other than commit (attach, damage, damage_buffer, frame,
\* set_buffer_scale, set_buffer_transform) changes only pending state: the
\* current buffer, damage, scale and transform and the role stay as they were.
C13_OnlyPendingChanges ==
    [][last'.op # "commit"
          => \A s \in DOMAIN surfaces :
                 /\ s \in DOMAIN surfaces'
                 /\ CurrentState(surfaces'[s]) = CurrentState(surfaces[s])]_vars

\* every kind of pending state has been set after a commit and differs from
\* the current state, which is that of the commit
C13_PendingDiffersFromCurrent ==
    /\ last.op \in {"attach", "damage", "damage_buffer", "frame",
                    "set_buffer_scale", "set_buffer_transform"}
    /\ LET surface == surfaces[last.surface]
       IN  /\ surface.buffer # None
           /\ surface.pending.buffer = None
           /\ attached[last.surface].pending = Some(0)
           /\ surface.damage # <<>>
           /\ surface.pending.damage # <<>>
           /\ surface.pending.damage # surface.damage
           /\ surface.pending.frame_callbacks # <<>>
           /\ surface.scale = 1
           /\ surface.pending.scale = 2
           /\ surface.transform = 0
           /\ surface.pending.transform = 3

\* C14: a commit that directly follows set_buffer_transform(t), t in 0..7,
\* makes t the current transform; one that directly follows
\* set_buffer_scale(n), n >= 1, makes n the current scale; and a commit with
\* no request since the previous commit keeps both.
C14_CommitAppliesRequested ==
    [][(last'.op = "commit" /\ last' # last)
          => LET s == last'.surface
             IN  /\ (last.op = "set_buffer_transform" /\ last.transform \in 0..7)
                        => surfaces'[s].transform = last.transform
                 /\ (last.op = "set_buffer_scale" /\ last.scale >= 1)
                        => surfaces'[s].scale = last.scale
                 /\ last.op \in {"new", "commit"}
                        => /\ surfaces'[s].transform = surfaces[s].transform
                           /\ surfaces'[s].scale = surfaces[s].scale]_vars

\* C15: the current scale of every surface is at least 1 and its current
\* transform is one of 0..7.
C15_ScaleAndTransformValid ==
    \A s \in DOMAIN surfaces :
        /\ surfaces[s].scale >= 1
        /\ surfaces[s].transform \in 0..7

\* C16: after a wl_surface is destroyed no window of the WindowManager is
\* associated with the surface.
C16_DestroyCascades ==
    last.op = "destroy_surface"
        => /\ \A w \in DOMAIN windows : windows[w].surface_id # last.surface
           /\ last.surface \notin DOMAIN surface_to_window

\* C17: a get_toplevel for a surface that has another role than None or
\* XdgToplevel, or that no longer exists, creates no window and leaves the
\* role of the surface as it was.
C17_ToplevelOnlyForToplevelRole ==
    (last.op = "get_toplevel" /\ last.role \notin {"None", "XdgToplevel"})
        => /\ last.window \notin DOMAIN windows
           /\ last.surface \in DOMAIN surfaces => surfaces[last.surface].role = last.role

\* C18: get_toplevel sends xdg_toplevel.configure(0, 0, []) and then
\* xdg_surface.configure(serial) with the serial just allocated, and nothing else.
C18_InitialConfigure ==
    [][(last'.op = "get_toplevel" /\ last' # last)
          => /\ Len(issued') = Len(issued) + 1
             /\ Len(events') = Len(events) + 2
             /\ SubSeq(events', 1, Len(events)) = events
             /\ LET e1 == events'[Len(events) + 1]
                    e2 == events'[Len(events) + 2]
                IN  /\ e1.event = "xdg_toplevel.configure"
                    /\ e1.width = 0
                    /\ e1.height = 0
                    /\ e1.states = <<>>
                    /\ e2.event = "xdg_surface.configure"
                    /\ e2.xdg_surface = last'.xdg_surface
                    /\ e2.serial = issued'[Len(issued')]]_vars

\* C19: a commit that leaves its surface without a current buffer creates no
\* native window, and a native window that exists is never created again.
C19_NativeWindowOnFirstBuffer ==
    [][/\ (last'.op = "commit" /\ surfaces'[last'.surface].buffer = None)
              => DOMAIN native_windows' = DOMAIN native_windows
       /\ \A w \in DOMAIN native_windows :
              w \in DOMAIN native_windows' => native_windows'[w] = native_windows[w]]_vars

\* C20: after xdg_toplevel.destroy of window W: W is not in the WindowManager,
\* no surface maps to W, W is not the focused window, and no native window is
\* registered for W.
C20_WindowReleased ==
    last.op = "toplevel_destroy"
        => /\ last.window \notin DOMAIN windows
           /\ \A s \in DOMAIN surface_to_window : surface_to_window[s] # last.window
           /\ focused_window # Some(last.window)
           /\ last.window \notin DOMAIN native_windows

\* a toplevel has been destroyed whose window had a native window and was
\* the window of its surface
C20_DestroyedShownWindow ==
    /\ last.op = "toplevel_destroy"
    /\ last.native
    /\ last.mapped
    /\ native_windows = <<>>

\* C22: a resize request never makes a pool smaller: a requested size that is
\* not larger than the pool's size (a negative one included) leaves the size
\* as it is, and a larger one becomes the size.
C22_PoolNeverShrinks ==
    [][(last'.op = "resize" /\ last' # last)
          => LET size == pools[last'.pool].size
                 new_size == pools'[last'.pool].size
             IN  /\ LeqBytes(size, new_size)
                 /\ IF last'.size >= 0 /\ LessBytes(size, NatToBytes(last'.size, 8))
                    THEN new_size = NatToBytes(last'.size, 8)
                    ELSE new_size = size]_vars

\* C23: a buffer stays in the handler until it is destroyed itself, whatever
\* happens to its pool, and a create_buffer on a destroyed pool fails with
\* InvalidPool and adds no buffer.
C23_BuffersOutlivePool ==
    [][/\ \A b \in DOMAIN buffers :
              (last'.op = "destroy_buffer" /\ last'.buffer = b)
              \/ (b \in DOMAIN buffers' /\ buffers'[b] = buffers[b])
       /\ (last'.op = "create_buffer" /\ last' # last /\ last'.pool \notin DOMAIN pools)
              => /\ last'.ret = "InvalidPool"
                 /\ buffers' = buffers]_vars

\* a create_buffer has failed on a destroyed pool of which a buffer is still
\* in the handler
C23_BufferOfDestroyedPool ==
    /\ last.op = "create_buffer"
    /\ last.pool \notin DOMAIN pools
    /\ last.ret = "InvalidPool"
    /\ \E b \in DOMAIN buffers : buffers[b].pool_id = last.pool

\* C21: when the host has closed the native window of a toplevel, the server
\* has sent xdg_toplevel.close for that toplevel, and the toplevel's surface
\* and window are still in the stores.
C21_HostCloseSendsClose ==
    last.op = "window_will_close"
        => /\ \E i \in DOMAIN events : events[i].event = "xdg_toplevel.close"
           /\ last.window \in DOMAIN windows
           /\ windows[last.window].surface_id \in DOMAIN surfaces

\* C24: the identities of one kind that new() has returned, to whatever
\* thread, are pairwise distinct, so an identity is never issued again, not
\* even after its entity was removed.
C24_IdsNeverReused ==
    \A kind \in IdKinds :
        \A i, j \in DOMAIN id_issued[kind] :
            i # j => id_issued[kind][i].id # id_issued[kind][j].id

\* a thread has got an identity of a kind of which another thread got one
\* before, whose entity has been removed since
C24_AllocatedAfterRemoval ==
    /\ last.op = "id_new"
    /\ \E i \in DOMAIN id_issued[last.kind] :
           /\ id_issued[last.kind][i].thread # last.thread
           /\ id_issued[last.kind][i].id \notin id_live[last.kind]
           /\ i < Len(id_issued[last.kind])

\* an integer as the pair (high part, low 16 bits), and the exact sum and
\* difference of two such pairs
Wide(v) == <<v \div 65536, v % 65536>>
WideAdd(p, q) == <<p[1] + q[1] + (p[2] + q[2]) \div 65536, (p[2] + q[2]) % 65536>>
WideSub(p, q) == <<p[1] - q[1] + (p[2] - q[2]) \div 65536, (p[2] - q[2]) % 65536>>
HalfOf(v) == IF v >= 0 THEN v \div 2 ELSE (v + 1) \div 2

\* the anchor point on one axis: the start, the middle or the end of the
\* anchor rectangle's extent
AnchorAt(start, extent, side) ==
    CASE side = "start" -> Wide(start)
      [] side = "middle" -> WideAdd(Wide(start), Wide(HalfOf(extent)))
      [] side = "end" -> WideAdd(Wide(start), Wide(extent))

\* the popup's origin on one axis for the gravity side
Displaced(point, extent, side) ==
    CASE side = "start" -> WideSub(point, Wide(extent))
      [] side = "middle" -> WideSub(point, Wide(HalfOf(extent)))
      [] side = "end" -> point

XSide(edge) ==
    IF edge \in {"Left", "TopLeft", "BottomLeft"} THEN "start"
    ELSE IF edge \in {"Right", "TopRight", "BottomRight"} THEN "end" ELSE "middle"

YSide(edge) ==
    IF edge \in {"Top", "TopLeft", "TopRight"} THEN "start"
    ELSE IF edge \in {"Bottom", "BottomLeft", "BottomRight"} THEN "end" ELSE "middle"

\* C25: calculate_geometry returns the popup size unchanged and the origin
\* that is the anchor point of the anchor edge, displaced to the gravity side
\* by the popup size and shifted by the offset (in exact arithmetic).
C25_PopupGeometry ==
    last.op = "calculate_geometry"
        => /\ ~last.ret.panic
           /\ last.ret.width = positioner.size[1]
           /\ last.ret.height = positioner.size[2]
           /\ Wide(last.ret.x) =
                  WideAdd(Displaced(AnchorAt(positioner.anchor_rect[1],
                                             positioner.anchor_rect[3],
                                             XSide(positioner.anchor)),
                                    positioner.size[1], XSide(positioner.gravity)),
                          Wide(positioner.offset[1]))
           /\ Wide(last.ret.y) =
                  WideAdd(Displaced(AnchorAt(positioner.anchor_rect[2],
                                             positioner.anchor_rect[4],
                                             YSide(positioner.anchor)),
                                    positioner.size[2], YSide(positioner.gravity)),
                          Wide(positioner.offset[2]))

\* the actions of a mask, by name
ActionsIn(mask) ==
    {a \in {"Copy", "Move", "Ask"} :
        (mask \div (CASE a = "Copy" -> 1 [] a = "Move" -> 2 [] a = "Ask" -> 4)) % 2 = 1}

\* C26: set_actions negotiates the receiver's preferred action when it is in
\* both the source's and the receiver's mask, otherwise the first of copy,
\* move, ask that is in both, and none only when no action is in both.
C26_ActionNegotiated ==
    last.op = "set_actions"
        => LET common == ActionsIn(data_offer.source_actions) \cap ActionsIn(last.actions)
           IN  data_offer.action =
                   IF last.preferred \in common THEN last.preferred
                   ELSE IF "Copy" \in common THEN "Copy"
                   ELSE IF "Move" \in common THEN "Move"
                   ELSE IF "Ask" \in common THEN "Ask"
                   ELSE "None"

\* C27: a frame changes state only along Pending -> Ready -> Copying -> Done
\* or Failed: copy only from Ready, done only from Copying, and nothing
\* changes a frame that is Done or Failed.
C27_FrameLifecycle ==
    [][frame'.state # frame.state
          => /\ frame.state \notin {"Done", "Failed"}
             /\ frame'.state = "Ready" => frame.state = "Pending"
             /\ frame'.state = "Copying" => frame.state = "Ready"
             /\ frame'.state = "Done" => frame.state = "Copying"]_vars

\* a u32 as the pair (high 16 bits, low 16 bits)
WideU32(a) == <<a[3] + 256 * a[4], a[1] + 256 * a[2]>>

\* the size on one axis: the output size minus the two margins when the
\* surface is anchored to both edges and has size 0, which is not more than
\* the output size when no margin is negative; the client's size otherwise
AxisSize(size, output, near, far, margin_near, margin_far, computed) ==
    IF /\ (layer_surface.anchor \div near) % 2 = 1
       /\ (layer_surface.anchor \div far) % 2 = 1
       /\ size = 0
    THEN /\ WideU32(computed) = WideSub(WideSub(Wide(output), Wide(margin_near)),
                                        Wide(margin_far))
         /\ (margin_near >= 0 /\ margin_far >= 0) => LeqBytes(computed, U32(output))
    ELSE computed = U32(size)

\* C28: the geometry of a layer surface has, on each axis, the output size
\* minus the two margins when the surface is stretched between both edges
\* (never more than the output size for non-negative margins), and the
\* client's size otherwise.
C28_LayerSize ==
    last.op = "layer_calculate_geometry"
        => /\ ~last.ret.panic
           /\ AxisSize(layer_surface.size[1], last.output[1], 4, 8,
                       layer_surface.margin[4], layer_surface.margin[2], last.ret.width)
           /\ AxisSize(layer_surface.size[2], last.output[2], 1, 2,
                       layer_surface.margin[1], layer_surface.margin[3], last.ret.height)

\* C29: set_focus(new) returns the focus held before the call as old_focus,
\* new as new_focus and the keys pressed at the call as pressed_keys, makes
\* new the focus, and leaves the pressed keys and the modifiers as they were.
C29_FocusChange ==
    [][last'.op = "set_focus"
          => /\ last'.change.old_focus = keyboard.focus
             /\ last'.change.new_focus = last'.surface
             /\ last'.change.pressed_keys = keyboard.pressed_keys
             /\ keyboard'.focus = last'.surface
             /\ keyboard'.pressed_keys = keyboard.pressed_keys
             /\ keyboard'.modifiers = keyboard.modifiers]_vars

\* the focus has moved from one surface to another while keys were pressed
\* and modifiers were held
C29_FocusMovedWithKeysDown ==
    /\ last.op = "set_focus"
    /\ last.change.old_focus # None
    /\ last.change.new_focus # None
    /\ last.change.new_focus # last.change.old_focus
    /\ Len(last.change.pressed_keys) = 2
    /\ keyboard.modifiers # ModifierState_default

FocusedWindows == {w \in DOMAIN windows : windows[w].state.focused}

\* C30: at most one window is focused; after set_focused(Some(id)) of an
\* existing window that window is focused and activated and no other window
\* is either; after set_focused(None) no window is focused.
C30_OneFocusedWindow ==
    /\ Cardinality(FocusedWindows) <= 1
    /\ (last.op = "set_focused" /\ last.id # None /\ last.id[1] \in DOMAIN windows)
           => \A w \in DOMAIN windows :
                  /\ windows[w].state.focused = (w = last.id[1])
                  /\ windows[w].state.activated = (w = last.id[1])
    /\ (last.op = "set_focused" /\ last.id = None) => FocusedWindows = {}

\* the focus has moved from one existing window to another
C30_FocusMoved ==
    /\ last.op = "set_focused"
    /\ last.id # None
    /\ last.prev # None
    /\ last.prev # last.id
    /\ {last.id[1], last.prev[1]} \subseteq DOMAIN windows

\* C31: the output added to an empty manager becomes the primary; an add to
\* a manager that holds outputs and the removal of an output that is not the
\* primary leave the primary as it is; set_primary of an output in the
\* manager makes it the primary, and of any other id changes nothing.
C31_PrimaryStays ==
    [][/\ (last'.op = "output_add" /\ last' # last)
              => primary' = IF outputs = {} THEN Some(last'.id) ELSE primary
       /\ (last'.op = "output_remove" /\ last' # last /\ primary # Some(last'.id))
              => primary' = primary
       /\ (last'.op = "set_primary" /\ last' # last)
              => IF last'.id \in outputs
                 THEN primary' = Some(last'.id) /\ outputs' = outputs
                 ELSE primary' = primary /\ outputs' = outputs]_vars

\* the first output is still the primary after another was added and removed
C31_FirstStillPrimary ==
    /\ last.op = "output_remove"
    /\ primary # None
    /\ primary # Some(last.id)
    /\ Cardinality(outputs) >= 2

\* C38: primary() returns an output iff the manager holds an output, and
\* the primary is always an output of the manager.
C38_PrimaryIsHeld ==
    /\ (OutputManager_primary # None) <=> (outputs # {})
    /\ primary # None => primary[1] \in outputs

\* the primary was removed while other outputs were held, and one of those
\* is the primary now
C38_PrimaryReplaced ==
    /\ last.op = "output_remove"
    /\ last.id \notin outputs
    /\ primary # None
    /\ Cardinality(outputs) >= 2

\* the keys in the pressed-key list
PressedKeys(kb) == {kb.pressed_keys[i] : i \in 1..Len(kb.pressed_keys)}

\* C32: key_press(k) returns true exactly when k was not pressed before and
\* leaves k pressed; key_release(k) returns true exactly when k was pressed
\* before and leaves k not pressed; neither changes whether another key is
\* pressed, and no other call changes the pressed keys (so a key is pressed
\* iff the last call for it was a key_press); the list never holds a key twice.
C32_PressedKeys ==
    [][/\ last'.op = "key_press"
              => /\ last'.ret = (last'.keycode \notin PressedKeys(keyboard))
                 /\ PressedKeys(keyboard') = PressedKeys(keyboard) \cup {last'.keycode}
       /\ last'.op = "key_release"
              => /\ last'.ret = (last'.keycode \in PressedKeys(keyboard))
                 /\ PressedKeys(keyboard') = PressedKeys(keyboard) \ {last'.keycode}
       /\ last'.op \notin {"key_press", "key_release"}
              => keyboard'.pressed_keys = keyboard.pressed_keys
       /\ Cardinality(PressedKeys(keyboard')) = Len(keyboard'.pressed_keys)]_vars

\* a key that was pressed already is pressed again while another key is down
C32_RepeatedPress ==
    /\ last.op = "key_press"
    /\ last.ret = FALSE
    /\ Len(keyboard.pressed_keys) = 2

\* C33: client_count() equals the number of clients connected to the
\* server, after every accept and every disconnect.
C33_CountIsConnected == CompositorState_client_count = Cardinality(connections)

\* WindowManager::get_by_surface: the id of the window it returns
WindowManager_get_by_surface(surface_id) ==
    IF surface_id \in DOMAIN surface_to_window /\ surface_to_window[surface_id] \in DOMAIN windows
    THEN Some(surface_to_window[surface_id])
    ELSE None

\* C34: each surface has at most one window in the table, and
\* get_by_surface(s) returns the window w iff w is in the table and its
\* surface_id is s.
C34_SurfaceWindowConsistent ==
    \A s \in 1..MaxSurfaces :
        /\ Cardinality({w \in DOMAIN windows : windows[w].surface_id = s}) <= 1
        /\ \A w \in 1..MaxManagedWindows :
               (WindowManager_get_by_surface(s) = Some(w))
                   <=> (w \in DOMAIN windows /\ windows[w].surface_id = s)

\* C35: the maximized and fullscreen flags of every window agree with the
\* maximized and fullscreen flags of its state.
C35_FlagsAgree ==
    \A id \in DOMAIN windows :
        /\ windows[id].maximized = windows[id].state.maximized
        /\ windows[id].fullscreen = windows[id].state.fullscreen

\* C36: a create_buffer that returns InvalidPool, BufferTooLarge or
\* InvalidStride and a resize_pool that returns InvalidPool leave the pools,
\* their sizes and the buffers as they were before the call.
C36_FailureChangesNothing ==
    [][(/\ last'.op \in {"create_buffer", "resize"}
        /\ last'.ret \in {"InvalidPool", "BufferTooLarge", "InvalidStride"})
           => /\ pools' = pools
              /\ buffers' = buffers
              /\ pool_counter' = pool_counter
              /\ buffer_counter' = buffer_counter]_vars

\* resize_pool fails on a destroyed pool whose buffer is still there
C36_ResizeOfDestroyedPool ==
    /\ last.op = "resize"
    /\ last.ret = "InvalidPool"
    /\ buffers # <<>>

\* the role a request gives to its surface
RoleOf(op) == IF op = "get_toplevel" THEN "XdgToplevel" ELSE "XdgPopup"

\* C37: get_toplevel and get_popup fail with InvalidSurface exactly when the
\* surface does not exist and with RoleAlreadySet exactly when it has another
\* role than none and the requested one; a failure leaves the surfaces (role
\* and parent) and the window store unchanged; a successful get_toplevel
\* leaves the surface with the role XdgToplevel and adds exactly one window,
\* of that surface, to the store.
C37_RoleRequests ==
    [][last'.op \in {"get_toplevel", "get_popup"} =>
          LET s == last'.surface
          IN  /\ (last'.ret = "InvalidSurface") <=> (s \notin DOMAIN surfaces)
              /\ (last'.ret = "RoleAlreadySet")
                     <=> (s \in DOMAIN surfaces
                          /\ surfaces[s].role \notin {"None", RoleOf(last'.op)})
              /\ last'.ret \in {"InvalidSurface", "RoleAlreadySet"}
                     => /\ surfaces' = surfaces
                        /\ windows' = windows
                        /\ surface_to_window' = surface_to_window
                        /\ focused_window' = focused_window
                        /\ window_counter' = window_counter
              /\ (last'.op = "get_toplevel" /\ last'.ret = "Ok")
                     => /\ surfaces'[s].role = "XdgToplevel"
                        /\ surfaces'[s].parent = surfaces[s].parent
                        /\ \E w \in DOMAIN windows' \ DOMAIN windows :
                              /\ DOMAIN windows' = DOMAIN windows \cup {w}
                              /\ windows'[w].surface_id = s
                              /\ surface_to_window'[s] = w
                              /\ \A old \in DOMAIN windows : windows'[old] = windows[old]]_vars

\* get_toplevel fails on a surface that is a popup with a parent, and no
\* window was made
C37_ToplevelRefusedForPopup ==
    /\ last.op = "get_toplevel"
    /\ last.ret = "RoleAlreadySet"
    /\ surfaces[1].role = "XdgPopup"
    /\ surfaces[1].parent # None
    /\ windows = <<>>

\* p < q for two exact integers as Wide pairs
WideLess(p, q) == p[1] < q[1] \/ (p[1] = q[1] /\ p[2] < q[2])

\* the point lies in the rectangle: x <= px < x + width and
\* y <= py < y + height, in exact arithmetic
RectHolds(rect, px, py) ==
    /\ rect.x <= px
    /\ WideLess(Wide(px), WideAdd(Wide(rect.x), Wide(rect.width)))
    /\ rect.y <= py
    /\ WideLess(Wide(py), WideAdd(Wide(rect.y), Wide(rect.height)))

\* some add rectangle holds the point, and no subtract rectangle after the
\* last such add holds it
InRegion(rects, px, py) ==
    \E i \in 1..Len(rects) :
        /\ rects[i].add
        /\ RectHolds(rects[i], px, py)
        /\ \A j \in (i + 1)..Len(rects) : ~RectHolds(rects[j], px, py)

\* C39: contains(p) is true iff some add rectangle contains p and no
\* subtract rectangle issued after the last such add contains p; a region
\* with no rectangles contains no point.
C39_ContainsInOrder ==
    last.op = "contains" =>
        /\ ~last.ret.panic
        /\ last.ret.inside = InRegion(region, last.px, last.py)

=============================================================================
